---- MODULE Spec2Model ----
(***************************************************************************)
(* WiFi site-survey analysis (Scripts/): the coverage classifier, the      *)
(* handover-zone detector and the efficiency score of analyze_floor, the   *)
(* copies of that logic in the visualisation and Pi survey scripts, the    *)
(* building summary of main (BuildingSpec), the comparison of a Pi survey  *)
(* with Acrylic's figures (ValidationSpec) and the parser of the airodump  *)
(* captures (ParserSpec).                                                  *)
(*                                                                         *)
(* A DataFrame is a sequence of rows (records of cells).  A cell that may  *)
(* be missing is <<v>> when present and <<>> when it is NaN.  A string is  *)
(* a sequence of one-character strings.  Floating-point values are exact   *)
(* rationals <<n, d>> with d > 0; <<0, 0>> is the float NaN.               *)
(***************************************************************************)
EXTENDS Integers, Sequences, FiniteSets, TLC

VARIABLES
    exists,   \* whether <floor_dir>/all_measurements.csv exists
    df,       \* the rows of all_measurements.csv (Acrylic export of one floor)
    data,     \* the rows of <floor>_floor_parsed.csv (PiSurveyAnalyzer.data)
    pi_dir,   \* the survey directory: each floor's <floor>_floor_parsed.csv
    data_dir, \* the floor directories of analyze_wifi_data's data directory
    csv_file, \* the lines of an airodump-ng capture (AirodumpParser.csv_file)
    out       \* what the last function run computed (its locals and return value)

\* what the scripts read and never write
files == <<exists, df, data, pi_dir, data_dir, csv_file>>

vars == <<exists, df, data, pi_dir, data_dir, csv_file, out>>

----------------------------------------------------------------------------
(* Cells and rationals *)

NaN == <<>>

notna(c) == c # <<>>

\* pandas comparisons: any comparison with NaN is False
gt(c, t) == notna(c) /\ c[1] > t

le(c, t) == notna(c) /\ c[1] <= t

Abs(n) == IF n < 0 THEN -n ELSE n

RECURSIVE GCD(_, _)
GCD(a, b) == IF b = 0 THEN a ELSE GCD(b, a % b)

NaNRat == <<0, 0>>

Rat(n, d) ==
    LET g == GCD(Abs(n), Abs(d))
        s == IF d < 0 THEN -1 ELSE 1
    IN  <<(s * n) \div g, (s * d) \div g>>

IsNaNRat(a) == a[2] = 0

RInt(n) == <<n, 1>>

\* over the least common denominator, which keeps the products small
RAdd(a, b) ==
    LET g == GCD(a[2], b[2])
    IN  Rat(a[1] * (b[2] \div g) + b[1] * (a[2] \div g), a[2] * (b[2] \div g))

RMul(a, b) == Rat(a[1] * b[1], a[2] * b[2])

RDiv(a, b) == Rat(a[1] * b[2], a[2] * b[1])

RLe(a, b) == a[1] * b[2] <= b[1] * a[2]

RLt(a, b) == a[1] * b[2] < b[1] * a[2]

\* Python's min(a, b) and max(a, b) on numbers
RMin(a, b) == IF RLt(b, a) THEN b ELSE a

RMax(a, b) == IF RLt(a, b) THEN b ELSE a

RECURSIVE SumInts(_)
SumInts(s) ==
    IF Len(s) = 0 THEN 0
    ELSE IF Len(s) = 1 THEN s[1]
    ELSE LET half == Len(s) \div 2
         IN  SumInts(SubSeq(s, 1, half)) + SumInts(SubSeq(s, half + 1, Len(s)))

RECURSIVE SumRats(_)
SumRats(s) == IF s = <<>> THEN RInt(0) ELSE RAdd(Head(s), SumRats(Tail(s)))

Column(frame, col) == [i \in 1..Len(frame) |-> frame[i][col]]

\* Series.mean(): NaN cells are skipped; the mean of nothing is NaN
mean(cells) ==
    LET present == SelectSeq(cells, notna)
    IN  IF Len(present) = 0 THEN NaNRat
        ELSE Rat(SumInts([i \in 1..Len(present) |-> present[i][1]]), Len(present))

\* Series.mean() of a column of floats none of which is NaN
mean_of_floats(s) == IF Len(s) = 0 THEN NaNRat ELSE RDiv(SumRats(s), RInt(Len(s)))

\* Series.unique() / nunique() of a column without missing values
unique(cells) == {cells[i] : i \in 1..Len(cells)}

----------------------------------------------------------------------------
(* Network names and Series.str.contains(pat, na=False, case=False) *)

SLU_users == <<"S", "L", "U", "-", "u", "s", "e", "r", "s">>

slu_users_lower == <<"s", "l", "u", "-", "u", "s", "e", "r", "s">>

SLU_guest == <<"S", "L", "U", "-", "g", "u", "e", "s", "t">>

SLU_lab_users == <<"S", "L", "U", "-", "l", "a", "b", "-", "u", "s", "e", "r", "s">>

eduroam == <<"e", "d", "u">>

casefold(c) ==
    CASE c = "S" -> "s"
      [] c = "L" -> "l"
      [] c = "U" -> "u"
      [] OTHER -> c

match_at(s, pat, i) == \A k \in 1..Len(pat) : casefold(s[i + k - 1]) = casefold(pat[k])

str_contains(cell, pat) ==
    /\ notna(cell)
    /\ \E i \in 1..(Len(cell[1]) - Len(pat) + 1) : match_at(cell[1], pat, i)

\* frame[col].str: a column read from a file with rows, none of which has a
\* value, is a float64 column of NaN and has no .str accessor (AttributeError);
\* the column of a file without rows, and any column holding a name, has one
no_str_accessor(frame, col) ==
    Len(frame) > 0 /\ \A i \in 1..Len(frame) : frame[i][col] = NaN

----------------------------------------------------------------------------
(* groupby(['x_position', 'y_position']): rows with a NaN key are dropped, *)
(* the groups come in sorted key order                                     *)

has_key(r) == notna(r.x_position) /\ notna(r.y_position)

key_of(r) == <<r.x_position[1], r.y_position[1]>>

group_keys(frame) == {key_of(frame[i]) : i \in {j \in 1..Len(frame) : has_key(frame[j])}}

key_less(a, b) == a[1] < b[1] \/ (a[1] = b[1] /\ a[2] < b[2])

RECURSIVE sorted_keys(_)
sorted_keys(K) ==
    IF K = {} THEN <<>>
    ELSE LET m == CHOOSE k \in K : \A o \in K \ {k} : key_less(k, o)
         IN  <<m>> \o sorted_keys(K \ {m})

groupby(frame) == sorted_keys(group_keys(frame))

get_group(frame, k) == SelectSeq(frame, LAMBDA r : has_key(r) /\ key_of(r) = k)

ngroups(frame) == Cardinality(group_keys(frame))

----------------------------------------------------------------------------
(* analyze_wifi_data.py: analyze_floor *)

floor_slu_users(frame) == SelectSeq(frame, LAMBDA r : str_contains(r.ssid, SLU_users))

no_slu_data(slu_users) == Len(slu_users) = 0

\* mutant: the Excellent band written >= -50
floor_excellent_closed(slu_users) ==
    Len(SelectSeq(slu_users, LAMBDA r : notna(r.signal_strength) /\ r.signal_strength[1] >= -50))

floor_excellent(slu_users) ==
    Len(SelectSeq(slu_users, LAMBDA r : gt(r.signal_strength, -50)))

\* mutant: the Good band's upper end written < -50
floor_good_open(slu_users) ==
    Len(SelectSeq(slu_users, LAMBDA r : r.signal_strength # <<>> /\ r.signal_strength[1] < -50
                                         /\ gt(r.signal_strength, -65)))

floor_good(slu_users) ==
    Len(SelectSeq(slu_users, LAMBDA r : le(r.signal_strength, -50) /\ gt(r.signal_strength, -65)))

floor_fair(slu_users) ==
    Len(SelectSeq(slu_users, LAMBDA r : le(r.signal_strength, -65) /\ gt(r.signal_strength, -80)))

floor_poor(slu_users) ==
    Len(SelectSeq(slu_users, LAMBDA r : le(r.signal_strength, -80)))

handover_threshold == -70

\* mutant: the handover threshold compared with >=
floor_strong_aps_inclusive(group) ==
    SelectSeq(group, LAMBDA r : notna(r.signal_strength)
                                /\ r.signal_strength[1] >= handover_threshold)

floor_strong_aps(group) ==
    SelectSeq(group, LAMBDA r : gt(r.signal_strength, handover_threshold))

\* mutant: the runs of equal BSSIDs counted, as a uniq over unsorted rows
floor_num_aps_runs(strong_aps) ==
    Cardinality({i \in 1..Len(strong_aps) :
                    i = 1 \/ strong_aps[i].bssid # strong_aps[i - 1].bssid})

\* mutant: the strong rows counted, not their distinct BSSIDs
floor_num_aps_rows(strong_aps) == Len(strong_aps)

floor_num_aps(strong_aps) == Cardinality(unique(Column(strong_aps, "bssid")))

floor_zone_avg_signal(group, strong_aps) == mean(Column(strong_aps, "signal_strength"))

floor_is_handover(num_aps) == num_aps >= 2

\* the loop of lines 66-77 over the groups, in key order
RECURSIVE floor_handover_zones(_, _)
floor_handover_zones(slu_users, keys) ==
    IF keys = <<>> THEN <<>>
    ELSE LET group == get_group(slu_users, Head(keys))
             strong_aps == floor_strong_aps(group)
             num_aps == floor_num_aps(strong_aps)
             rest == floor_handover_zones(slu_users, Tail(keys))
         IN  IF floor_is_handover(num_aps)
             THEN <<[x |-> Head(keys)[1], y |-> Head(keys)[2], num_aps |-> num_aps,
                     avg_signal |-> floor_zone_avg_signal(group, strong_aps)]>> \o rest
             ELSE rest

\* mutant: the fraction, not the percentage
floor_handover_coverage_fraction(handover_locations, total_locations) ==
    IF total_locations > 0 THEN Rat(handover_locations, total_locations) ELSE RInt(0)

\* mutant: // in place of /
floor_handover_coverage_floordiv(handover_locations, total_locations) ==
    IF total_locations > 0
    THEN RInt((handover_locations \div total_locations) * 100)
    ELSE RInt(0)

floor_handover_coverage(handover_locations, total_locations) ==
    IF total_locations > 0
    THEN RMul(Rat(handover_locations, total_locations), RInt(100))
    ELSE RInt(0)

floor_coverage_score(excellent, good, total) ==
    IF total > 0 THEN RMul(Rat(excellent + good, total), RInt(100)) ELSE RInt(0)

\* mutant: a floor without handover zone given a mean zone signal of -90
floor_avg_handover_signal_audible(handover_df) ==
    IF Len(handover_df) > 0 THEN mean_of_floats(Column(handover_df, "avg_signal"))
    ELSE RInt(-90)

floor_avg_handover_signal(handover_df) ==
    IF Len(handover_df) > 0 THEN mean_of_floats(Column(handover_df, "avg_signal"))
    ELSE RInt(-100)

\* mutant: the factor 2 left out
floor_signal_quality_score_unscaled(avg_handover_signal) ==
    RMin(RInt(100), RMax(RInt(0), RAdd(avg_handover_signal, RInt(100))))

floor_signal_quality_score(avg_handover_signal) ==
    RMin(RInt(100), RMax(RInt(0), RMul(RAdd(avg_handover_signal, RInt(100)), RInt(2))))

floor_avg_aps_per_zone(handover_df) ==
    IF Len(handover_df) > 0
    THEN Rat(SumInts(Column(handover_df, "num_aps")), Len(handover_df))
    ELSE RInt(0)

\* mutant: the mean count divided by 10
floor_density_score_tenth(avg_aps_per_zone) ==
    RMin(RInt(100), RMul(RDiv(avg_aps_per_zone, RInt(10)), RInt(100)))

\* mutant: the min(100, ...) clamp left out
floor_density_score_unclamped(avg_aps_per_zone) ==
    RMul(RDiv(avg_aps_per_zone, RInt(20)), RInt(100))

floor_density_score(avg_aps_per_zone) ==
    RMin(RInt(100), RMul(RDiv(avg_aps_per_zone, RInt(20)), RInt(100)))

\* mutant: the handover term subtracted
floor_efficiency_score_penalised(handover_score, signal_quality_score, density_score) ==
    RAdd(RAdd(RMul(handover_score, Rat(-4, 10)),
              RMul(signal_quality_score, Rat(3, 10))),
         RMul(density_score, Rat(3, 10)))

\* mutant: the weights of handover and signal quality exchanged
floor_efficiency_score_swapped(handover_score, signal_quality_score, density_score) ==
    RAdd(RAdd(RMul(handover_score, Rat(3, 10)),
              RMul(signal_quality_score, Rat(4, 10))),
         RMul(density_score, Rat(3, 10)))

floor_efficiency_score(handover_score, signal_quality_score, density_score) ==
    RAdd(RAdd(RMul(handover_score, Rat(4, 10)),
              RMul(signal_quality_score, Rat(3, 10))),
         RMul(density_score, Rat(3, 10)))

\* The locals of analyze_floor when it returns, and what it returns.
analyze_floor(file_exists, frame) ==
    IF ~file_exists
    THEN [op |-> "analyze_floor", returned |-> "None", raised |-> "none"]
    ELSE
    IF no_str_accessor(frame, "ssid")   \* df['ssid'].str at line 33
    THEN [op |-> "analyze_floor", returned |-> "raise", raised |-> "AttributeError"]
    ELSE
    LET slu_users == floor_slu_users(frame) IN
    IF no_slu_data(slu_users)
    THEN [op |-> "analyze_floor", returned |-> "None", raised |-> "none"]
    ELSE
    LET excellent == floor_excellent(slu_users)
        good == floor_good(slu_users)
        fair == floor_fair(slu_users)
        poor == floor_poor(slu_users)
        total == Len(slu_users)
    IN
    IF total = 0   \* excellent/total at line 57
    THEN [op |-> "analyze_floor", returned |-> "raise", raised |-> "ZeroDivisionError"]
    ELSE
    LET handover_df == floor_handover_zones(slu_users, groupby(slu_users))
        total_locations == ngroups(slu_users)
        handover_locations == Len(handover_df)
        handover_coverage == floor_handover_coverage(handover_locations, total_locations)
        coverage_score == floor_coverage_score(excellent, good, total)
        handover_score == handover_coverage
        avg_handover_signal == floor_avg_handover_signal(handover_df)
        signal_quality_score == floor_signal_quality_score(avg_handover_signal)
        avg_aps_per_zone == floor_avg_aps_per_zone(handover_df)
        density_score == floor_density_score(avg_aps_per_zone)
        efficiency_score ==
            floor_efficiency_score(handover_score, signal_quality_score, density_score)
    IN  [op |-> "analyze_floor", returned |-> "dict", raised |-> "none",
         excellent |-> excellent, good |-> good, fair |-> fair, poor |-> poor,
         total |-> total,
         handover_zones |-> handover_df,
         total_locations |-> total_locations,
         handover_locations |-> handover_locations,
         handover_coverage |-> handover_coverage,
         coverage_score |-> coverage_score,
         handover_score |-> handover_score,
         avg_handover_signal |-> avg_handover_signal,
         signal_quality_score |-> signal_quality_score,
         avg_aps_per_zone |-> avg_aps_per_zone,
         density_score |-> density_score,
         efficiency_score |-> efficiency_score,
         result |-> [total_measurements |-> Len(slu_users),
                     locations |-> total_locations,
                     avg_signal |-> mean(Column(slu_users, "signal_strength")),
                     handover_coverage |-> handover_coverage,
                     handover_zones |-> handover_locations,
                     efficiency_score |-> efficiency_score]]

\* main: floor_dirs is data_dir.iterdir() in the order the system lists it;
\* a floor directory is a record [exists, frame] for its all_measurements.csv

\* mutant: the sums divided by the number of floor directories
main_average_over_dirs(values, results, floor_dirs) ==
    RDiv(SumRats(values), RInt(Len(floor_dirs)))

\* sum(...) / len(results) of lines 156-157
main_average(values, results, floor_dirs) == RDiv(SumRats(values), RInt(Len(results)))

main(floor_dirs) ==
    LET analysed == [i \in 1..Len(floor_dirs) |->
                        analyze_floor(floor_dirs[i].exists, floor_dirs[i].frame)]
    IN
    IF \E i \in 1..Len(floor_dirs) : analysed[i].returned = "raise"
    THEN LET first == CHOOSE i \in 1..Len(floor_dirs) :
                          /\ analysed[i].returned = "raise"
                          /\ \A j \in 1..(i - 1) : analysed[j].returned # "raise"
         IN  [op |-> "main", raised |-> analysed[first].raised, summarized |-> FALSE]
    ELSE
    LET kept == SelectSeq(analysed, LAMBDA a : a.returned = "dict")
        results == [i \in 1..Len(kept) |-> kept[i].result]
    IN  IF Len(results) = 0
        THEN [op |-> "main", raised |-> "none", summarized |-> FALSE, results |-> results]
        ELSE [op |-> "main", raised |-> "none", summarized |-> TRUE, results |-> results,
              floors_analyzed |-> Len(results),
              total_measurements |-> SumInts(Column(results, "total_measurements")),
              avg_efficiency |->
                  main_average(Column(results, "efficiency_score"), results, floor_dirs),
              avg_handover_coverage |->
                  main_average(Column(results, "handover_coverage"), results, floor_dirs)]

----------------------------------------------------------------------------
(* create_visualizations.py: the body run for one floor_key of floors_data; *)
(* load_floor_data puts a floor in floors_data iff its file exists          *)

quality_slu(frame) == SelectSeq(frame, LAMBDA r : str_contains(r.ssid, SLU_users))

quality_excellent(slu) == Len(SelectSeq(slu, LAMBDA r : gt(r.signal_strength, -50)))

quality_good(slu) ==
    Len(SelectSeq(slu, LAMBDA r : le(r.signal_strength, -50) /\ gt(r.signal_strength, -65)))

quality_fair(slu) ==
    Len(SelectSeq(slu, LAMBDA r : le(r.signal_strength, -65) /\ gt(r.signal_strength, -80)))

quality_poor(slu) == Len(SelectSeq(slu, LAMBDA r : le(r.signal_strength, -80)))

create_coverage_quality(file_exists, frame) ==
    LET slu == quality_slu(frame) IN
    IF file_exists /\ no_str_accessor(frame, "ssid")
    THEN [op |-> "create_coverage_quality", charted |-> FALSE, raised |-> "AttributeError"]
    ELSE
    IF file_exists /\ Len(slu) > 0
    THEN [op |-> "create_coverage_quality", charted |-> TRUE, raised |-> "none",
          excellent |-> quality_excellent(slu), good |-> quality_good(slu),
          fair |-> quality_fair(slu), poor |-> quality_poor(slu),
          total |-> Len(slu)]
    ELSE [op |-> "create_coverage_quality", charted |-> FALSE, raised |-> "none"]

\* create_summary_dashboard, floors_data holding the one floor: combined_slu
\* is the concatenation of the floors' records of the network
summary_slu(frame) == SelectSeq(frame, LAMBDA r : str_contains(r.ssid, SLU_users))

summary_excellent(combined_slu) ==
    Len(SelectSeq(combined_slu, LAMBDA r : gt(r.signal_strength, -50)))

\* mutant: the dashboard's Good band written with an open upper end
summary_good_open(combined_slu) ==
    Len(SelectSeq(combined_slu, LAMBDA r : notna(r.signal_strength)
                                           /\ r.signal_strength[1] < -50
                                           /\ gt(r.signal_strength, -65)))

summary_good(combined_slu) ==
    Len(SelectSeq(combined_slu, LAMBDA r : le(r.signal_strength, -50)
                                           /\ gt(r.signal_strength, -65)))

summary_fair(combined_slu) ==
    Len(SelectSeq(combined_slu, LAMBDA r : le(r.signal_strength, -65)
                                           /\ gt(r.signal_strength, -80)))

summary_poor(combined_slu) ==
    Len(SelectSeq(combined_slu, LAMBDA r : le(r.signal_strength, -80)))

create_summary_dashboard(file_exists, frame) ==
    IF file_exists /\ no_str_accessor(frame, "ssid")
    THEN [op |-> "create_summary_dashboard", charted |-> FALSE, raised |-> "AttributeError"]
    ELSE
    LET slu == summary_slu(frame)
        all_slu == IF file_exists /\ Len(slu) > 0 THEN <<slu>> ELSE <<>>
        combined_slu == IF all_slu # <<>> THEN all_slu[1] ELSE <<>>
    IN  IF Len(combined_slu) > 0
        THEN [op |-> "create_summary_dashboard", charted |-> TRUE, raised |-> "none",
              total_measurements |-> Len(frame),
              total_bssids |-> Cardinality(unique(Column(frame, "bssid"))),
              avg_signal |-> mean(Column(combined_slu, "signal_strength")),
              excellent |-> summary_excellent(combined_slu),
              good |-> summary_good(combined_slu),
              fair |-> summary_fair(combined_slu),
              poor |-> summary_poor(combined_slu),
              total |-> Len(combined_slu)]
        ELSE [op |-> "create_summary_dashboard", charted |-> FALSE, raised |-> "none"]

\* mutant: the handover threshold compared with >= in the scatter chart
scatter_strong_aps_inclusive(group) ==
    SelectSeq(group, LAMBDA r : notna(r.signal_strength) /\ r.signal_strength[1] >= -70)

scatter_strong_aps(group) == SelectSeq(group, LAMBDA r : gt(r.signal_strength, -70))

scatter_num_aps(strong_aps) == Cardinality(unique(Column(strong_aps, "bssid")))

scatter_avg_signal(group, strong_aps) == mean(Column(group, "signal_strength"))

\* mutant: a location where no access point is above the threshold is left out
RECURSIVE scatter_partition_heard(_, _)
scatter_partition_heard(slu, keys) ==
    IF keys = <<>> THEN <<<<>>, <<>>>>
    ELSE LET group == get_group(slu, Head(keys))
             strong_aps == scatter_strong_aps(group)
             num_aps == scatter_num_aps(strong_aps)
             avg_signal == scatter_avg_signal(group, strong_aps)
             rest == scatter_partition_heard(slu, Tail(keys))
         IN  IF num_aps >= 2
             THEN <<<<[x |-> Head(keys)[1], y |-> Head(keys)[2],
                       signal |-> avg_signal, aps |-> num_aps]>> \o rest[1], rest[2]>>
             ELSE IF num_aps >= 1
             THEN <<rest[1], <<[x |-> Head(keys)[1], y |-> Head(keys)[2],
                                signal |-> avg_signal]>> \o rest[2]>>
             ELSE rest

\* the loop of lines 255-263: <<handover_zones, non_handover>>
RECURSIVE scatter_partition(_, _)
scatter_partition(slu, keys) ==
    IF keys = <<>> THEN <<<<>>, <<>>>>
    ELSE LET group == get_group(slu, Head(keys))
             strong_aps == scatter_strong_aps(group)
             num_aps == scatter_num_aps(strong_aps)
             avg_signal == scatter_avg_signal(group, strong_aps)
             rest == scatter_partition(slu, Tail(keys))
         IN  IF num_aps >= 2
             THEN <<<<[x |-> Head(keys)[1], y |-> Head(keys)[2],
                       signal |-> avg_signal, aps |-> num_aps]>> \o rest[1], rest[2]>>
             ELSE <<rest[1], <<[x |-> Head(keys)[1], y |-> Head(keys)[2],
                                signal |-> avg_signal]>> \o rest[2]>>

create_handover_scatter(file_exists, frame) ==
    LET slu == SelectSeq(frame, LAMBDA r : str_contains(r.ssid, SLU_users)) IN
    IF file_exists /\ no_str_accessor(frame, "ssid")
    THEN [op |-> "create_handover_scatter", charted |-> FALSE, raised |-> "AttributeError"]
    ELSE
    IF file_exists /\ Len(slu) > 0
    THEN LET parts == scatter_partition(slu, groupby(slu))
         IN  [op |-> "create_handover_scatter", charted |-> TRUE, raised |-> "none",
              handover_zones |-> parts[1], non_handover |-> parts[2]]
    ELSE [op |-> "create_handover_scatter", charted |-> FALSE, raised |-> "none"]

\* mutant: the rows above the threshold counted, not their distinct BSSIDs
RECURSIVE comparison_handover_count_rows(_, _)
comparison_handover_count_rows(slu, keys) ==
    IF keys = <<>> THEN 0
    ELSE LET group == get_group(slu, Head(keys))
             strong_aps == SelectSeq(group, LAMBDA r : gt(r.signal_strength, -70))
         IN  (IF Len(strong_aps) >= 2 THEN 1 ELSE 0)
             + comparison_handover_count_rows(slu, Tail(keys))

RECURSIVE comparison_handover_count(_, _)
comparison_handover_count(slu, keys) ==
    IF keys = <<>> THEN 0
    ELSE LET group == get_group(slu, Head(keys))
             strong_aps == SelectSeq(group, LAMBDA r : gt(r.signal_strength, -70))
         IN  (IF Cardinality(unique(Column(strong_aps, "bssid"))) >= 2 THEN 1 ELSE 0)
             + comparison_handover_count(slu, Tail(keys))

comparison_handover_coverage(handover_count, n) ==
    IF n > 0 THEN RMul(Rat(handover_count, n), RInt(100)) ELSE RInt(0)

create_building_comparison(file_exists, frame) ==
    LET slu == SelectSeq(frame, LAMBDA r : str_contains(r.ssid, SLU_users)) IN
    IF file_exists /\ no_str_accessor(frame, "ssid")
    THEN [op |-> "create_building_comparison", charted |-> FALSE, raised |-> "AttributeError"]
    ELSE
    IF file_exists /\ Len(slu) > 0
    THEN LET handover_count == comparison_handover_count(slu, groupby(slu))
         IN  [op |-> "create_building_comparison", charted |-> TRUE, raised |-> "none",
              handover_count |-> handover_count,
              Locations |-> ngroups(slu),
              handover_coverage |->
                  comparison_handover_coverage(handover_count, ngroups(slu)),
              avg_signal |-> mean(Column(slu, "signal_strength")),
              BSSIDs |-> Cardinality(unique(Column(slu, "bssid")))]
    ELSE [op |-> "create_building_comparison", charted |-> FALSE, raised |-> "none"]

----------------------------------------------------------------------------
(* analyze_pi_survey.py: PiSurveyAnalyzer.analyze_slu_network *)

SLU == <<"S", "L", "U">>

users == <<"u", "s", "e", "r", "s">>

pi_slu(frame) == SelectSeq(frame, LAMBDA r : str_contains(r.essid, SLU))

pi_slu_users(slu) == SelectSeq(slu, LAMBDA r : str_contains(r.essid, users))

pi_excellent(slu_users) == Len(SelectSeq(slu_users, LAMBDA r : gt(r.signal_dbm, -50)))

pi_good(slu_users) ==
    Len(SelectSeq(slu_users, LAMBDA r : le(r.signal_dbm, -50) /\ gt(r.signal_dbm, -65)))

pi_fair(slu_users) ==
    Len(SelectSeq(slu_users, LAMBDA r : le(r.signal_dbm, -65) /\ gt(r.signal_dbm, -80)))

pi_poor(slu_users) == Len(SelectSeq(slu_users, LAMBDA r : le(r.signal_dbm, -80)))

analyze_slu_network(frame) ==
    IF no_str_accessor(frame, "essid")   \* self.data['essid'].str at line 21
    THEN [op |-> "analyze_slu_network", classified |-> FALSE, raised |-> "AttributeError"]
    ELSE
    LET slu == pi_slu(frame)
        slu_users == pi_slu_users(slu)
    IN  IF Len(slu_users) > 0
        THEN [op |-> "analyze_slu_network", classified |-> TRUE, raised |-> "none",
              excellent |-> pi_excellent(slu_users), good |-> pi_good(slu_users),
              fair |-> pi_fair(slu_users), poor |-> pi_poor(slu_users),
              total |-> Len(slu_users), slu_users |-> slu_users]
        ELSE [op |-> "analyze_slu_network", classified |-> FALSE, raised |-> "none",
              slu_users |-> slu_users]

----------------------------------------------------------------------------
(* validate_pi_vs_acrylic.py, analyze_pi_survey.py (the comparison) and    *)
(* visualize_validation.py: the Pi survey compared with Acrylic's figures. *)
(* A survey directory maps each floor to its <floor>_floor_parsed.csv, a   *)
(* record [exists, frame].                                                 *)

Floors == <<"ground", "top", "basement">>

FloorNames == {Floors[i] : i \in 1..Len(Floors)}

\* Series.nunique() of a column without missing values (bssid)
nunique(values) == Cardinality(unique(values))

\* Series.nunique() of a column of cells: NaN is not counted
nunique_cells(cells) == Cardinality(unique(SelectSeq(cells, notna)))

\* abs(a - b) on floats; NaN if either is NaN
abs_diff(a, b) ==
    IF IsNaNRat(a) \/ IsNaNRat(b) THEN NaNRat
    ELSE LET d == RAdd(a, RMul(RInt(-1), b))
         IN  IF d[1] < 0 THEN <<-d[1], d[2]>> ELSE d

\* np.mean of a non-empty list of floats; NaN if one of them is NaN
np_mean(s) ==
    IF \E i \in 1..Len(s) : IsNaNRat(s[i]) THEN NaNRat
    ELSE RDiv(SumRats(s), RInt(Len(s)))

IntMin(a, b) == IF b < a THEN b ELSE a

IntMax(a, b) == IF b > a THEN b ELSE a

\* ValidationAnalyzer.compare_floor ---------------------------------------

acrylic_numbers ==
    [ground   |-> [bssids |-> 422, networks |-> 30, aps |-> 86, avg_signal |-> Rat(-553, 10)],
     top      |-> [bssids |-> 446, networks |-> 45, aps |-> 103, avg_signal |-> Rat(-554, 10)],
     basement |-> [bssids |-> 243, networks |-> 17, aps |-> 54, avg_signal |-> Rat(-457, 10)]]

validate_pi_slu(pi_data) == SelectSeq(pi_data, LAMBDA r : str_contains(r.essid, SLU_users))

\* min(...) / max(...) divides by zero when both counts are 0
validate_match_divides_by_zero(pi_count, acrylic_count) ==
    IntMax(pi_count, acrylic_count) = 0

\* mutant: the Pi count over the Acrylic count
validate_bssid_match_ratio(pi_bssids, acrylic_bssids) ==
    RMul(Rat(pi_bssids, acrylic_bssids), RInt(100))

validate_bssid_match(pi_bssids, acrylic_bssids) ==
    RMul(Rat(IntMin(pi_bssids, acrylic_bssids), IntMax(pi_bssids, acrylic_bssids)), RInt(100))

validate_network_match(pi_networks, acrylic_networks) ==
    RMul(Rat(IntMin(pi_networks, acrylic_networks), IntMax(pi_networks, acrylic_networks)),
         RInt(100))

\* the message of lines 84-89
validate_signal_verdict(mean_diff) ==
    IF RLt(mean_diff, RInt(2)) THEN "EXCELLENT"
    ELSE IF RLt(mean_diff, RInt(5)) THEN "GOOD"
    ELSE "ACCEPTABLE"

\* the message of lines 92-97
validate_verdict(mean_diff, bssid_match) ==
    IF RLt(mean_diff, RInt(3)) /\ RLt(RInt(90), bssid_match) THEN "SUCCESSFUL"
    ELSE IF RLt(mean_diff, RInt(5)) /\ RLt(RInt(80), bssid_match) THEN "GOOD"
    ELSE "PARTIAL"

compare_floor(dir, floor_name) ==
    LET pi_file == dir[floor_name] IN
    IF ~pi_file.exists
    THEN [op |-> "compare_floor", floor |-> floor_name, returned |-> "None", raised |-> "none"]
    ELSE
    LET pi_data == pi_file.frame IN
    IF no_str_accessor(pi_data, "essid")   \* pi_data['essid'].str at line 31
    THEN [op |-> "compare_floor", floor |-> floor_name, returned |-> "raise",
          raised |-> "AttributeError"]
    ELSE
    IF floor_name \notin DOMAIN acrylic_numbers
    THEN [op |-> "compare_floor", floor |-> floor_name, returned |-> "None", raised |-> "none"]
    ELSE
    LET slu == validate_pi_slu(pi_data)
        acr == acrylic_numbers[floor_name]
        pi_avg == mean(Column(slu, "signal_dbm"))
        acrylic_avg == acr.avg_signal
        pi_bssids == nunique(Column(pi_data, "bssid"))
        pi_networks == nunique_cells(Column(pi_data, "essid"))
    IN
    IF \/ validate_match_divides_by_zero(pi_bssids, acr.bssids)
       \/ validate_match_divides_by_zero(pi_networks, acr.networks)
    THEN [op |-> "compare_floor", floor |-> floor_name, returned |-> "raise",
          raised |-> "ZeroDivisionError"]
    ELSE
    LET bssid_match == validate_bssid_match(pi_bssids, acr.bssids)
        network_match == validate_network_match(pi_networks, acr.networks)
        mean_diff == abs_diff(pi_avg, acrylic_avg)
    IN  [op |-> "compare_floor", floor |-> floor_name, returned |-> "dict", raised |-> "none",
         pi_avg |-> pi_avg,
         pi_bssids |-> pi_bssids, pi_networks |-> pi_networks,
         acrylic_bssids |-> acr.bssids, acrylic_networks |-> acr.networks,
         bssid_match |-> bssid_match, network_match |-> network_match,
         mean_diff |-> mean_diff,
         signal_verdict |-> validate_signal_verdict(mean_diff),
         verdict |-> validate_verdict(mean_diff, bssid_match),
         result |-> [floor |-> floor_name, pi_avg_signal |-> pi_avg,
                     acrylic_avg_signal |-> acrylic_avg, signal_diff |-> mean_diff,
                     pi_bssids |-> pi_bssids, acrylic_bssids |-> acr.bssids,
                     bssid_match |-> bssid_match]]

\* ValidationAnalyzer.validate_all_floors ---------------------------------

\* the message of lines 133-136, "none" when nothing is printed
validate_all_verdict(avg_signal_diff, avg_bssid_match) ==
    IF RLt(avg_signal_diff, RInt(3)) /\ RLt(RInt(90), avg_bssid_match) THEN "EXCELLENT"
    ELSE "none"

validate_all_floors(dir) ==
    LET compared == [i \in 1..Len(Floors) |-> compare_floor(dir, Floors[i])] IN
    IF \E i \in 1..Len(Floors) : compared[i].returned = "raise"
    THEN LET first == CHOOSE i \in 1..Len(Floors) :
                          /\ compared[i].returned = "raise"
                          /\ \A j \in 1..(i - 1) : compared[j].returned # "raise"
         IN  [op |-> "validate_all_floors", returned |-> "raise",
              raised |-> compared[first].raised,
              visited |-> SubSeq(Floors, 1, first)]
    ELSE
    LET kept == SelectSeq(compared, LAMBDA c : c.returned = "dict")
        results == [i \in 1..Len(kept) |-> kept[i].result]
    IN  IF Len(results) = 0
        THEN [op |-> "validate_all_floors", returned |-> "dict", raised |-> "none",
              visited |-> Floors,
              results |-> results, verdict |-> "none"]
        ELSE
        LET avg_signal_diff == np_mean(Column(results, "signal_diff"))
            avg_bssid_match == np_mean(Column(results, "bssid_match"))
        IN  [op |-> "validate_all_floors", returned |-> "dict", raised |-> "none",
             visited |-> Floors,
             results |-> results,
             floor_verdicts |-> Column(kept, "verdict"),
             avg_signal_diff |-> avg_signal_diff,
             avg_bssid_match |-> avg_bssid_match,
             verdict |-> validate_all_verdict(avg_signal_diff, avg_bssid_match)]

\* PiSurveyAnalyzer.compare_with_acrylic_numbers --------------------------

numbers_match_divides_by_zero(pi_count, acrylic_count) ==
    IntMax(pi_count, acrylic_count) = 0

numbers_bssid_match(pi_bssids, acrylic_bssids) ==
    RMul(Rat(IntMin(pi_bssids, acrylic_bssids), IntMax(pi_bssids, acrylic_bssids)), RInt(100))

\* mutant: the larger count over the smaller
numbers_network_match_inverted(pi_networks, acrylic_networks) ==
    RMul(Rat(IntMax(pi_networks, acrylic_networks), IntMin(pi_networks, acrylic_networks)),
         RInt(100))

numbers_network_match(pi_networks, acrylic_networks) ==
    RMul(Rat(IntMin(pi_networks, acrylic_networks), IntMax(pi_networks, acrylic_networks)),
         RInt(100))

\* the message of lines 124-129
numbers_verdict(bssid_match, network_match) ==
    IF RLt(RInt(90), bssid_match) /\ RLt(RInt(90), network_match) THEN "EXCELLENT"
    ELSE IF RLt(RInt(80), bssid_match) /\ RLt(RInt(80), network_match) THEN "GOOD"
    ELSE "PARTIAL"

compare_with_acrylic_numbers(self_data, acrylic_aps, acrylic_networks, acrylic_bssids) ==
    LET pi_bssids == nunique(Column(self_data, "bssid"))
        pi_networks == nunique_cells(Column(self_data, "essid"))
        pi_aps == Len(self_data)
        marks == [aps |-> Abs(pi_aps - acrylic_aps) < 10,
                  bssids |-> Abs(pi_bssids - acrylic_bssids) < 50,
                  networks |-> Abs(pi_networks - acrylic_networks) < 5]
    IN
    IF \/ numbers_match_divides_by_zero(pi_bssids, acrylic_bssids)
       \/ numbers_match_divides_by_zero(pi_networks, acrylic_networks)
    THEN [op |-> "compare_with_acrylic_numbers", raised |-> "ZeroDivisionError",
          pi_bssids |-> pi_bssids, pi_networks |-> pi_networks,
          acrylic_bssids |-> acrylic_bssids, acrylic_networks |-> acrylic_networks,
          marks |-> marks]
    ELSE
    LET bssid_match == numbers_bssid_match(pi_bssids, acrylic_bssids)
        network_match == numbers_network_match(pi_networks, acrylic_networks)
    IN  [op |-> "compare_with_acrylic_numbers", raised |-> "none",
         pi_bssids |-> pi_bssids, pi_networks |-> pi_networks,
         acrylic_bssids |-> acrylic_bssids, acrylic_networks |-> acrylic_networks,
         marks |-> marks,
         bssid_match |-> bssid_match, network_match |-> network_match,
         verdict |-> numbers_verdict(bssid_match, network_match)]

\* analyze_all_floors ------------------------------------------------------

acrylic_data ==
    [ground |-> [aps |-> 86, bssids |-> 422, networks |-> 30],
     top |-> [aps |-> 103, bssids |-> 446, networks |-> 45],
     basement |-> [aps |-> 54, bssids |-> 243, networks |-> 17]]

\* one pass of the loop of lines 149-170: analyze_all_networks only prints
analyze_pass(dir, floor) ==
    LET parsed_file == dir[floor] IN
    IF ~parsed_file.exists
    THEN [floor |-> floor, outcome |-> "continue"]
    ELSE
    LET slu_data == analyze_slu_network(parsed_file.frame)
        compared == compare_with_acrylic_numbers(parsed_file.frame,
                        acrylic_data[floor].aps, acrylic_data[floor].networks,
                        acrylic_data[floor].bssids)
    IN  IF slu_data.raised # "none"
        THEN [floor |-> floor, outcome |-> "raise", raised |-> slu_data.raised]
        ELSE IF compared.raised # "none"
        THEN [floor |-> floor, outcome |-> "raise", raised |-> compared.raised]
        ELSE [floor |-> floor, outcome |-> "entry",
              slu_data |-> slu_data.slu_users, verdict |-> compared.verdict]

\* the passes made before the loop is left, given the outcomes that end it
passes_made(passes, ending) ==
    LET last == {i \in 1..Len(passes) : passes[i].outcome \in ending}
    IN  IF last = {} THEN passes
        ELSE SubSeq(passes, 1, CHOOSE i \in last : \A j \in last : i <= j)

\* mutant: a missing file ends the loop
analyze_all_floors_stopping(dir) ==
    LET passes == passes_made([i \in 1..Len(Floors) |-> analyze_pass(dir, Floors[i])],
                              {"raise", "continue"})
    IN  IF passes # <<>> /\ passes[Len(passes)].outcome = "raise"
        THEN [op |-> "analyze_all_floors", returned |-> "raise",
              raised |-> passes[Len(passes)].raised,
              visited |-> Column(passes, "floor")]
        ELSE [op |-> "analyze_all_floors", returned |-> "dict", raised |-> "none",
              visited |-> Column(passes, "floor"),
              results |-> SelectSeq(passes, LAMBDA p : p.outcome = "entry")]

\* visited: the floors of the passes in the order made; results: the entries
\* of the mapping in insertion order
analyze_all_floors(dir) ==
    LET passes == passes_made([i \in 1..Len(Floors) |-> analyze_pass(dir, Floors[i])],
                              {"raise"})
    IN  IF passes # <<>> /\ passes[Len(passes)].outcome = "raise"
        THEN [op |-> "analyze_all_floors", returned |-> "raise",
              raised |-> passes[Len(passes)].raised,
              visited |-> Column(passes, "floor")]
        ELSE [op |-> "analyze_all_floors", returned |-> "dict", raised |-> "none",
              visited |-> Column(passes, "floor"),
              results |-> SelectSeq(passes, LAMBDA p : p.outcome = "entry")]

\* create_validation_dashboard --------------------------------------------

acrylic_signals == [ground |-> Rat(-553, 10), top |-> Rat(-554, 10), basement |-> Rat(-457, 10)]

acrylic_totals == [ground |-> 422, top |-> 446, basement |-> 243]

dashboard_pi_slu(pi_df) == SelectSeq(pi_df, LAMBDA r : str_contains(r.essid, SLU_users))

\* one pass of the loop of lines 96-111
dashboard_signal_diff(pi_file, floor_key) ==
    IF pi_file.exists
    THEN LET slu == dashboard_pi_slu(pi_file.frame)
         IN  IF Len(slu) > 0
             THEN abs_diff(mean(Column(slu, "signal_dbm")), acrylic_signals[floor_key])
             ELSE RInt(0)
    ELSE RInt(0)

dashboard_match(pi_bssids, acrylic_bssids) ==
    RMul(Rat(IntMin(pi_bssids, acrylic_bssids), IntMax(pi_bssids, acrylic_bssids)), RInt(100))

\* one pass of the loop of lines 133-143
dashboard_match_percentage(pi_file, floor_key) ==
    IF pi_file.exists
    THEN dashboard_match(nunique(Column(pi_file.frame, "bssid")), acrylic_totals[floor_key])
    ELSE RInt(0)

\* the RESULT line of the summary text
dashboard_result(avg_signal_diff, avg_detection) ==
    IF RLt(avg_signal_diff, RInt(2)) /\ RLt(RInt(95), avg_detection) THEN "EXCELLENT"
    ELSE "GOOD"

create_validation_dashboard(dir) ==
    IF \E i \in 1..Len(Floors) :
           dir[Floors[i]].exists /\ no_str_accessor(dir[Floors[i]].frame, "essid")
    THEN [op |-> "create_validation_dashboard", raised |-> "AttributeError"]   \* line 101
    ELSE
    LET signal_diffs ==
            [i \in 1..Len(Floors) |-> dashboard_signal_diff(dir[Floors[i]], Floors[i])]
        match_percentages ==
            [i \in 1..Len(Floors) |-> dashboard_match_percentage(dir[Floors[i]], Floors[i])]
        avg_signal_diff == np_mean(signal_diffs)
        avg_detection == np_mean(match_percentages)
    IN  [op |-> "create_validation_dashboard", raised |-> "none",
         signal_diffs |-> signal_diffs,
         signal_colors |-> [i \in 1..Len(Floors) |-> RLt(signal_diffs[i], RInt(2))],
         match_percentages |-> match_percentages,
         match_colors |-> [i \in 1..Len(Floors) |-> RLt(RInt(95), match_percentages[i])],
         avg_signal_diff |-> avg_signal_diff,
         avg_detection |-> avg_detection,
         result |-> dashboard_result(avg_signal_diff, avg_detection)]

----------------------------------------------------------------------------
(* parse_pi_data.py: AirodumpParser. A capture file is the sequence of its *)
(* lines and a line the sequence of its comma-separated parts, stripped,   *)
(* as _csv_split and the header split of line 54 give them; no line starts *)
(* with white space, so a line starts with 'BSSID' or 'Station MAC' when   *)
(* that is its first part. Indices are Python's: the first line is line 0. *)

BlankLine == <<"">>

startswith(line, word) == line[1] = word

Has(columns, name) == \E k \in 1..Len(columns) : columns[k] = name

Position(columns, name) == CHOOSE k \in 1..Len(columns) : columns[k] = name

\* pd.DataFrame(data, columns=header)
DataFrame(records, columns) ==
    [columns |-> columns,
     rows |-> [i \in 1..Len(records) |->
                  [c \in {columns[k] : k \in 1..Len(columns)} |->
                      records[i][Position(columns, c)]]]]

\* pd.DataFrame()
EmptyFrame == [columns |-> <<>>, rows |-> <<>>]

column_map(c) ==
    CASE c = "BSSID" -> "bssid"
      [] c = "First time seen" -> "first_seen"
      [] c = "Last time seen" -> "last_seen"
      [] c = "channel" -> "channel"
      [] c = "Speed" -> "speed"
      [] c = "Privacy" -> "privacy"
      [] c = "Cipher" -> "cipher"
      [] c = "Authentication" -> "authentication"
      [] c = "Power" -> "power"
      [] c = "# beacons" -> "beacons"
      [] c = "# IV" -> "iv"
      [] c = "LAN IP" -> "lan_ip"
      [] c = "ID-length" -> "id_length"
      [] c = "ESSID" -> "essid"
      [] c = "Key" -> "key"
      [] OTHER -> c

\* pd.to_numeric(..., errors='coerce') on the texts of the captures: a
\* numeral gives its number, any other text NaN
to_numeric(text) ==
    CASE text = "0" -> <<0>>
      [] text = "1" -> <<1>>
      [] text = "6" -> <<6>>
      [] text = "14" -> <<14>>
      [] text = "15" -> <<15>>
      [] text = "35" -> <<35>>
      [] text = "36" -> <<36>>
      [] text = "165" -> <<165>>
      [] text = "166" -> <<166>>
      [] text = "-1" -> <<-1>>
      [] text = "-55" -> <<-55>>
      [] text = "-70" -> <<-70>>
      [] OTHER -> NaN

\* Series.str.upper() on the BSSIDs of the captures
str_upper(text) ==
    CASE text = "aa:01" -> "AA:01"
      [] text = "aa:02" -> "AA:02"
      [] OTHER -> text

\* a cell of the frequency column: a number, the float NaN or the object None
Frequency(v) == [kind |-> "number", v |-> v]

FrequencyNaN == [kind |-> "nan", v |-> 0]

FrequencyNone == [kind |-> "None", v |-> 0]

channel_to_frequency(channel) ==
    IF channel = NaN THEN FrequencyNone
    ELSE LET ch == channel[1]
         IN  IF 1 <= ch /\ ch <= 14 THEN Frequency(2407 + (ch * 5))
             ELSE IF 36 <= ch /\ ch <= 165 THEN Frequency(5000 + (ch * 5))
             ELSE FrequencyNone

\* Series.apply builds the column from the values returned: numbers mixed
\* with None become a float64 column in which each None is NaN; a column of
\* numbers only, or of None only, keeps its values
apply_result(returned) ==
    IF /\ \E i \in 1..Len(returned) : returned[i].kind = "number"
       /\ \E i \in 1..Len(returned) : returned[i].kind = "None"
    THEN [i \in 1..Len(returned) |->
             IF returned[i].kind = "None" THEN FrequencyNaN ELSE returned[i]]
    ELSE returned

\* bool(f): None and 0 are false, NaN is true
truthy(f) == f.kind = "nan" \/ (f.kind = "number" /\ f.v # 0)

\* the lambda of line 156; NaN < 3000 is False
band_of(f) ==
    IF truthy(f) /\ f.kind = "number" /\ f.v < 3000 THEN "2.4 GHz"
    ELSE IF truthy(f) THEN "5 GHz"
    ELSE "None"

clean_columns(columns) ==
    LET renamed == [k \in 1..Len(columns) |->
                       IF column_map(columns[k]) = "power" THEN "signal_dbm"
                       ELSE column_map(columns[k])]
        with_frequency ==
            IF Has(renamed, "channel") THEN Append(renamed, "frequency") ELSE renamed
    IN  IF Has(with_frequency, "frequency") THEN Append(with_frequency, "band")
        ELSE with_frequency

\* lines 122-139: the conversions of the columns; the network names of the
\* captures hold no quote and the captures have no time column
clean_value(c, text) ==
    CASE c \in {"signal_dbm", "channel", "beacons"} -> to_numeric(text)
      [] c = "bssid" -> str_upper(text)
      [] OTHER -> text

clean_ap_dataframe(frame) ==
    LET columns == clean_columns(frame.columns)
        cleaned == [i \in 1..Len(frame.rows) |->
                       [k \in 1..Len(frame.columns) |->
                           clean_value(columns[k], frame.rows[i][frame.columns[k]])]]
        channel == [i \in 1..Len(cleaned) |-> cleaned[i][Position(columns, "channel")]]
        frequency ==
            apply_result([i \in 1..Len(cleaned) |-> channel_to_frequency(channel[i])])
        band == [i \in 1..Len(cleaned) |-> band_of(frequency[i])]
    IN  [columns |-> columns,
         rows |-> [i \in 1..Len(cleaned) |->
                      [c \in {columns[k] : k \in 1..Len(columns)} |->
                          IF c = "frequency" THEN frequency[i]
                          ELSE IF c = "band" THEN band[i]
                          ELSE cleaned[i][Position(columns, c)]]]]

parse_access_points(lines) ==
    LET header == lines[1]
        kept == SelectSeq(Tail(lines),
                          LAMBDA parts : parts # BlankLine /\ Len(parts) >= Len(header))
        rows == [i \in 1..Len(kept) |-> SubSeq(kept[i], 1, Len(header))]
    IN  clean_ap_dataframe(DataFrame(rows, header))

parse_clients(lines) ==
    IF Len(lines) < 2 THEN EmptyFrame
    ELSE
    LET header == lines[1]
        kept == SelectSeq(Tail(lines),
                          LAMBDA parts : parts # BlankLine /\ Len(parts) >= Len(header))
        rows == [i \in 1..Len(kept) |-> SubSeq(kept[i], 1, Len(header))]
    IN  IF rows = <<>> THEN EmptyFrame ELSE DataFrame(rows, header)

\* the loop of lines 31-36: the lines read up to the first 'Station MAC' line
parse_scanned(lines) ==
    LET stops == {i \in 1..Len(lines) :
                     ~startswith(lines[i], "BSSID") /\ startswith(lines[i], "Station MAC")}
    IN  IF stops = {} THEN Len(lines)
        ELSE CHOOSE i \in stops : \A j \in stops : i <= j

parse_ap_start(lines) ==
    LET found == {i \in 1..parse_scanned(lines) : startswith(lines[i], "BSSID")}
    IN  IF found = {} THEN 0
        ELSE (CHOOSE i \in found : \A j \in found : j <= i) - 1

parse_client_start(lines) ==
    LET scanned == parse_scanned(lines)
    IN  IF scanned > 0 /\ startswith(lines[scanned], "Station MAC")
           /\ ~startswith(lines[scanned], "BSSID")
        THEN scanned - 1
        ELSE 0

\* access_points_set and clients_set: the attribute is not None
parse(lines) ==
    LET ap_start == parse_ap_start(lines)
        client_start == parse_client_start(lines)
        access_points_set == ap_start > 0 /\ client_start > ap_start
        access_points ==
            IF access_points_set
            THEN parse_access_points(SubSeq(lines, ap_start + 1, client_start))
            ELSE EmptyFrame
        clients_set == client_start > 0
        clients ==
            IF clients_set THEN parse_clients(SubSeq(lines, client_start + 1, Len(lines)))
            ELSE EmptyFrame
    IN  [op |-> "parse",
         raised |-> IF access_points_set THEN "none" ELSE "TypeError",   \* line 46
         ap_start |-> ap_start, client_start |-> client_start,
         access_points_set |-> access_points_set, access_points |-> access_points,
         clients_set |-> clients_set, clients |-> clients]

\* self is the parser after parse: the record parse left
get_summary_stats(self) ==
    IF ~self.access_points_set
    THEN [op |-> "get_summary_stats", returned |-> "None",
          access_points_set |-> FALSE, access_points |-> self.access_points]
    ELSE
    LET frame == self.access_points
        banded == Has(frame.columns, "band")
    IN  [op |-> "get_summary_stats", returned |-> "dict",
         access_points_set |-> TRUE, access_points |-> frame,
         total_aps |-> Len(frame.rows),
         unique_bssids |-> Cardinality({frame.rows[i]["bssid"] : i \in 1..Len(frame.rows)}),
         channels_used |->
             IF Has(frame.columns, "channel")
             THEN Cardinality({frame.rows[i]["channel"] : i \in 1..Len(frame.rows)} \ {NaN})
             ELSE 0,
         band_2_4ghz |->
             IF banded
             THEN Len(SelectSeq(frame.rows, LAMBDA r : r["band"] = "2.4 GHz"))
             ELSE 0,
         band_5ghz |->
             IF banded
             THEN Len(SelectSeq(frame.rows, LAMBDA r : r["band"] = "5 GHz"))
             ELSE 0]

----------------------------------------------------------------------------
(* The measurement files the scripts are run on *)

MaxExtra == 1

DenseAPs == 21

Row(x, y, b, n, s) ==
    [x_position |-> x, y_position |-> y, bssid |-> b, ssid |-> n, signal_strength |-> s]

PiRow(b, n, s) == [bssid |-> b, essid |-> n, signal_dbm |-> s]

Signals == {<<-40>>, <<-50>>, <<-65>>, <<-70>>, <<-80>>, NaN}

Rows ==
    {Row(x, <<0>>, b, <<SLU_users>>, s) : x \in {<<0>>, <<1>>, NaN}, b \in 1..2, s \in Signals}
    \cup {Row(<<0>>, <<0>>, 1, n, <<-40>>) :
            n \in {<<slu_users_lower>>, <<SLU_guest>>, <<eduroam>>, NaN}}

PiRows ==
    {PiRow(1, n, s) : n \in {<<SLU_users>>, <<slu_users_lower>>, <<SLU_guest>>, NaN},
                      s \in Signals}

\* section 8 of the specification: BSSIDs A, B, C are 1, 2, 3
SpecExample ==
    << Row(<<0>>, <<0>>, 1, <<SLU_users>>, <<-40>>),
       Row(<<0>>, <<0>>, 2, <<SLU_users>>, <<-55>>),
       Row(<<0>>, <<0>>, 3, <<SLU_users>>, <<-90>>),
       Row(<<1>>, <<0>>, 1, <<SLU_users>>, <<-72>>) >>

DedupExample ==
    << Row(<<0>>, <<0>>, 1, <<SLU_users>>, <<-60>>),
       Row(<<0>>, <<0>>, 1, <<SLU_users>>, <<-60>>) >>

BoundaryExample ==
    << Row(<<0>>, <<0>>, 1, <<SLU_users>>, <<-50>>),
       Row(<<0>>, <<0>>, 2, <<SLU_users>>, <<-65>>),
       Row(<<1>>, <<0>>, 3, <<SLU_users>>, <<-80>>) >>

\* a floor with repeated scans, a record at the handover threshold, a record
\* without position and a location out of reach of every access point
SurveyExample ==
    << Row(<<0>>, <<0>>, 1, <<SLU_users>>, <<-40>>),
       Row(<<0>>, <<0>>, 2, <<SLU_users>>, <<-65>>),
       Row(<<0>>, <<0>>, 1, <<SLU_users>>, <<-50>>),
       Row(<<0>>, <<0>>, 3, <<SLU_users>>, <<-80>>),
       Row(<<1>>, <<0>>, 1, <<SLU_users>>, <<-65>>),
       Row(<<1>>, <<0>>, 1, <<slu_users_lower>>, <<-40>>),
       Row(<<1>>, <<0>>, 2, <<SLU_users>>, <<-70>>),
       Row(NaN, <<0>>, 2, <<SLU_users>>, <<-40>>),
       Row(<<2>>, <<0>>, 3, <<SLU_users>>, <<-80>>),
       Row(<<2>>, <<0>>, 3, <<eduroam>>, <<-40>>) >>

\* two handover zones, of three and of two access points, surveyed in
\* interleaved order, and a record without signal
TwoZoneExample ==
    << Row(<<1>>, <<0>>, 2, <<SLU_users>>, <<-65>>),
       Row(<<0>>, <<0>>, 1, <<SLU_users>>, <<-40>>),
       Row(<<0>>, <<0>>, 3, <<SLU_users>>, <<-50>>),
       Row(<<1>>, <<0>>, 1, <<SLU_users>>, <<-40>>),
       Row(<<0>>, <<0>>, 2, <<SLU_users>>, <<-65>>),
       Row(<<1>>, <<0>>, 1, <<SLU_users>>, NaN) >>

\* one location that sees n access points at the same level
Dense(n, level) == [i \in 1..n |-> Row(<<0>>, <<0>>, i, <<SLU_users>>, <<level>>)]

Bases ==
    {<<>>, SpecExample, DedupExample, BoundaryExample, SurveyExample, TwoZoneExample,
     Dense(2, -69), Dense(2, handover_threshold), Dense(DenseAPs, -40),
     Dense(DenseAPs - 1, -60)}

SeqsUpTo(S, n) == UNION {[1..k -> S] : k \in 0..n}

FloorInputs == {extra \o base : extra \in SeqsUpTo(Rows, MaxExtra), base \in Bases}

\* a parsed capture: one row per access point
PiExample ==
    << PiRow(1, <<SLU_users>>, <<-40>>),
       PiRow(2, <<SLU_users>>, <<-50>>),
       PiRow(3, <<slu_users_lower>>, <<-65>>),
       PiRow(4, <<SLU_users>>, <<-80>>),
       PiRow(5, <<SLU_guest>>, <<-40>>),
       PiRow(6, NaN, <<-65>>) >>

PiBoundaryExample ==
    << PiRow(1, <<SLU_users>>, <<-50>>),
       PiRow(2, <<SLU_users>>, <<-65>>),
       PiRow(3, <<SLU_users>>, <<-80>>) >>

\* a capture with a network whose name holds 'SLU' and 'users' apart
PiLabExample ==
    << PiRow(1, <<SLU_users>>, <<-40>>),
       PiRow(2, <<SLU_lab_users>>, <<-65>>),
       PiRow(3, NaN, <<-50>>) >>

PiBases == {<<>>, PiExample, PiBoundaryExample, PiLabExample}

PiInputs == {extra \o base : extra \in SeqsUpTo(PiRows, MaxExtra), base \in PiBases}

\* a survey directory: a file or none for each floor
NoFile == [exists |-> FALSE, frame |-> <<>>]

PiFile(frame) == [exists |-> TRUE, frame |-> frame]

NoSurvey == [f \in FloorNames |-> NoFile]

\* a capture of n access points of the network, all heard at the same level
PiSurvey(n, level) == [i \in 1..n |-> PiRow(i, <<SLU_users>>, <<level>>)]

\* a capture of one access point that hides its network name
HiddenExample == << PiRow(1, NaN, <<-55>>) >>

\* captures that reproduce Acrylic's BSSID count on the ground floor, in the
\* basement and on the top floor, the last one 3.6 dB weaker than Acrylic's mean
PiSurveys ==
    {<<>>, PiExample, PiBoundaryExample, HiddenExample,
     PiSurvey(422, -55), PiSurvey(243, -46), PiSurvey(446, -59)}

PiFiles == {NoFile} \cup {PiFile(frame) : frame \in PiSurveys}

PiDirs == [FloorNames -> PiFiles]

\* the Acrylic counts handed to compare_with_acrylic_numbers: the three of
\* analyze_all_floors and every pair of small counts
MaxCount == 3

AcrylicInputs ==
    {[aps |-> 86, networks |-> 30, bssids |-> 422],
     [aps |-> 103, networks |-> 45, bssids |-> 446],
     [aps |-> 54, networks |-> 17, bssids |-> 243]}
    \cup {[aps |-> b, networks |-> n, bssids |-> b] : b \in 0..MaxCount, n \in 0..MaxCount}

\* floor directories: without all_measurements.csv, with a header-only one,
\* with records of other networks only, and with example surveys
NoMeasurements == [exists |-> FALSE, frame |-> <<>>]

FloorDir(frame) == [exists |-> TRUE, frame |-> frame]

OtherNetworkExample == << Row(<<0>>, <<0>>, 1, <<eduroam>>, <<-40>>) >>

\* a file whose only record has no network name
UnnamedExample == << Row(<<0>>, <<0>>, 1, NaN, <<-40>>) >>

FloorDirs ==
    {NoMeasurements} \cup
    {FloorDir(frame) : frame \in {<<>>, OtherNetworkExample, UnnamedExample, SpecExample,
                                   BoundaryExample, TwoZoneExample, Dense(2, -69)}}

MaxFloors == 3

DataDirs == SeqsUpTo(FloorDirs, MaxFloors)

\* airodump-ng captures: an optional first line, an access-point header with
\* or without channel column or none, access-point lines, and a client part
ApHeader == <<"BSSID", "channel", "Power", "ESSID">>

ApHeaderNoChannel == <<"BSSID", "Power", "ESSID">>

ClientHeader == <<"Station MAC", "Power", "BSSID">>

ClientLine == <<"cc:01", "-70", "aa:01">>

ChannelTexts == {"1", "14", "15", "35", "36", "165", "166", ""}

ApLines ==
    {<<"aa:01", ch, "-55", "SLU-users">> : ch \in ChannelTexts}
    \cup {BlankLine, <<"aa:02", "6">>}

MaxRows == 2

CsvFiles ==
    {first \o header \o rows \o clients :
        first \in {<<>>, <<BlankLine>>},
        header \in {<<>>, <<ApHeader>>, <<ApHeaderNoChannel>>},
        rows \in SeqsUpTo(ApLines, MaxRows),
        clients \in {<<>>, <<ClientHeader>>, <<ClientHeader, ClientLine>>}}

NotRun == [op |-> "none"]

Init ==
    /\ exists \in BOOLEAN
    /\ \/ df \in FloorInputs /\ data = <<>>
       \/ df = <<>> /\ data \in PiInputs
    /\ (~exists => df = <<>>)
    /\ pi_dir = NoSurvey
    /\ data_dir = <<>>
    /\ csv_file = <<>>
    /\ out = NotRun

AnalyzeFloor ==
    /\ out = NotRun
    /\ out' = analyze_floor(exists, df)
    /\ UNCHANGED files

CreateCoverageQuality ==
    /\ out = NotRun
    /\ out' = create_coverage_quality(exists, df)
    /\ UNCHANGED files

CreateHandoverScatter ==
    /\ out = NotRun
    /\ out' = create_handover_scatter(exists, df)
    /\ UNCHANGED files

CreateBuildingComparison ==
    /\ out = NotRun
    /\ out' = create_building_comparison(exists, df)
    /\ UNCHANGED files

CreateSummaryDashboard ==
    /\ out = NotRun
    /\ out' = create_summary_dashboard(exists, df)
    /\ UNCHANGED files

AnalyzeSluNetwork ==
    /\ out = NotRun
    /\ out' = analyze_slu_network(data)
    /\ UNCHANGED files

Next ==
    \/ AnalyzeFloor
    \/ CreateCoverageQuality
    \/ CreateHandoverScatter
    \/ CreateBuildingComparison
    \/ CreateSummaryDashboard
    \/ AnalyzeSluNetwork

Spec == Init /\ [][Next]_vars

\* parse_pi_data.py run on a capture file.
ParserInit ==
    /\ exists = FALSE
    /\ df = <<>>
    /\ data = <<>>
    /\ pi_dir = NoSurvey
    /\ data_dir = <<>>
    /\ csv_file \in CsvFiles
    /\ out = NotRun

Parse ==
    /\ out = NotRun
    /\ out' = parse(csv_file)
    /\ UNCHANGED files

GetSummaryStats ==
    /\ out.op = "parse"
    /\ out' = get_summary_stats(out)
    /\ UNCHANGED files

ParserNext ==
    \/ Parse
    \/ GetSummaryStats

ParserSpec == ParserInit /\ [][ParserNext]_vars

\* analyze_wifi_data.py run on a data directory.
BuildingInit ==
    /\ exists = FALSE
    /\ df = <<>>
    /\ data = <<>>
    /\ pi_dir = NoSurvey
    /\ data_dir \in DataDirs
    /\ csv_file = <<>>
    /\ out = NotRun

Main ==
    /\ out = NotRun
    /\ out' = main(data_dir)
    /\ UNCHANGED files

BuildingNext == Main

BuildingSpec == BuildingInit /\ [][BuildingNext]_vars

\* The validation scripts, run on a survey directory.
ValidationInit ==
    /\ exists = FALSE
    /\ df = <<>>
    /\ data = <<>>
    /\ pi_dir \in PiDirs
    /\ data_dir = <<>>
    /\ csv_file = <<>>
    /\ out = NotRun

CompareFloor ==
    /\ out = NotRun
    /\ \E floor_name \in FloorNames : out' = compare_floor(pi_dir, floor_name)
    /\ UNCHANGED files

ValidateAllFloors ==
    /\ out = NotRun
    /\ out' = validate_all_floors(pi_dir)
    /\ UNCHANGED files

\* PiSurveyAnalyzer(parsed_file).compare_with_acrylic_numbers(...) on a file
\* of the directory
CompareWithAcrylicNumbers ==
    /\ out = NotRun
    /\ \E floor \in FloorNames, acrylic \in AcrylicInputs :
           /\ pi_dir[floor].exists
           /\ out' = compare_with_acrylic_numbers(pi_dir[floor].frame, acrylic.aps,
                                                  acrylic.networks, acrylic.bssids)
    /\ UNCHANGED files

CreateValidationDashboard ==
    /\ out = NotRun
    /\ out' = create_validation_dashboard(pi_dir)
    /\ UNCHANGED files

AnalyzeAllFloors ==
    /\ out = NotRun
    /\ out' = analyze_all_floors(pi_dir)
    /\ UNCHANGED files

ValidationNext ==
    \/ CompareFloor
    \/ ValidateAllFloors
    \/ CompareWithAcrylicNumbers
    \/ AnalyzeAllFloors
    \/ CreateValidationDashboard

ValidationSpec == ValidationInit /\ [][ValidationNext]_vars

----------------------------------------------------------------------------
(* What the claims are stated over: the input records of the network of    *)
(* interest, read from the files and not from the functions' results       *)

FloorNet == {i \in 1..Len(df) : str_contains(df[i].ssid, SLU_users)}

PiNet ==
    {i \in 1..Len(data) : str_contains(data[i].essid, SLU) /\ str_contains(data[i].essid, users)}

FloorDone == out.op = "analyze_floor" /\ out.returned = "dict"

QualityDone == out.op = "create_coverage_quality" /\ out.charted

ScatterDone == out.op = "create_handover_scatter" /\ out.charted

ComparisonDone == out.op = "create_building_comparison" /\ out.charted

PiDone == out.op = "analyze_slu_network" /\ out.classified

Classified == FloorDone \/ QualityDone \/ PiDone

\* the signal cells of the network's records, in whichever file the function read
NetSignals ==
    IF out.op = "analyze_slu_network"
    THEN [i \in PiNet |-> data[i].signal_dbm]
    ELSE [i \in FloorNet |-> df[i].signal_strength]

AllValid(sig) == \A i \in DOMAIN sig : notna(sig[i])

CountAt(sig, v) == Cardinality({i \in DOMAIN sig : sig[i] = <<v>>})

\* C1: when every record of the network has a non-null integer signal, the
\* four band counts of analyze_floor, analyze_slu_network and
\* create_coverage_quality add up to the number of those records.
C1_BandsPartition ==
    Classified =>
        LET sig == NetSignals
        IN  AllValid(sig) =>
              /\ out.excellent + out.good + out.fair + out.poor = Cardinality(DOMAIN sig)
              /\ out.excellent >= 0 /\ out.good >= 0 /\ out.fair >= 0 /\ out.poor >= 0

C1_Witness ==
    /\ FloorDone /\ AllValid(NetSignals)
    /\ out.excellent > 0 /\ out.good > 0 /\ out.fair > 0 /\ out.poor > 0
    /\ CountAt(NetSignals, -50) > 0

OnBoundaries(sig) == \A i \in DOMAIN sig : sig[i] \in {<<-50>>, <<-65>>, <<-80>>}

\* C2: records exactly on a band boundary fall in the lower band: when every
\* record of the network is at -50, -65 or -80, none is Excellent, the -50
\* ones are the Good ones, the -65 ones the Fair ones, the -80 ones the Poor.
C2_BoundaryLowerBand ==
    Classified =>
        LET sig == NetSignals
        IN  OnBoundaries(sig) =>
              /\ out.excellent = 0
              /\ out.good = CountAt(sig, -50)
              /\ out.fair = CountAt(sig, -65)
              /\ out.poor = CountAt(sig, -80)

C2_Witness ==
    /\ QualityDone /\ OnBoundaries(NetSignals)
    /\ CountAt(NetSignals, -50) > 0
    /\ CountAt(NetSignals, -65) > 0
    /\ CountAt(NetSignals, -80) > 0

----------------------------------------------------------------------------
(* Handover zones, read from the file; net is the set of the indices of    *)
(* the network's records                                                    *)

Located(i) == df[i].x_position # NaN /\ df[i].y_position # NaN

LocationOf(i) == <<df[i].x_position[1], df[i].y_position[1]>>

Qualifies(i) == df[i].signal_strength # NaN /\ df[i].signal_strength[1] > -70

NetLocations(net) == {LocationOf(i) : i \in {j \in net : Located(j)}}

MeasuredAt(net, k) == {i \in net : Located(i) /\ LocationOf(i) = k}

QualifyingAPs(net, k) == {df[i].bssid : i \in {j \in MeasuredAt(net, k) : Qualifies(j)}}

HandoverLocations(net) ==
    {k \in NetLocations(net) : Cardinality(QualifyingAPs(net, k)) >= 2}

ZoneKeys(zones) == {<<zones[i].x, zones[i].y>> : i \in 1..Len(zones)}

\* C3: analyze_floor reports a location as a handover zone iff at least two
\* distinct BSSIDs are measured there above -70 dBm, and the num_aps it records
\* for the zone is the number of those BSSIDs.
C3_HandoverIff ==
    FloorDone =>
        LET net == FloorNet
            zones == out.handover_zones
        IN  /\ ZoneKeys(zones) = HandoverLocations(net)
            /\ Cardinality(ZoneKeys(zones)) = Len(zones)
            /\ \A i \in 1..Len(zones) :
                  zones[i].num_aps = Cardinality(QualifyingAPs(net, <<zones[i].x, zones[i].y>>))

C3_Witness ==
    /\ FloorDone
    /\ HandoverLocations(FloorNet) # {}
    /\ NetLocations(FloorNet) \ HandoverLocations(FloorNet) # {}
    /\ \E k \in NetLocations(FloorNet) : Cardinality(QualifyingAPs(FloorNet, k)) = 1
    /\ \E i \in FloorNet : Located(i) /\ df[i].signal_strength = <<-70>>

RemoveAt(s, i) == SubSeq(s, 1, i - 1) \o SubSeq(s, i + 1, Len(s))

\* the records that repeat a qualifying measurement of the same BSSID at
\* their location
Repeated(net) ==
    {i \in net : /\ Located(i) /\ Qualifies(i)
                 /\ \E j \in net \ {i} : /\ Located(j) /\ LocationOf(j) = LocationOf(i)
                                         /\ Qualifies(j) /\ df[j].bssid = df[i].bssid}

ZoneCounts(o) ==
    IF o.op = "analyze_floor"
    THEN {<<o.handover_zones[i].x, o.handover_zones[i].y, o.handover_zones[i].num_aps>> :
            i \in 1..Len(o.handover_zones)}
    ELSE {<<o.handover_zones[i].x, o.handover_zones[i].y, o.handover_zones[i].aps>> :
            i \in 1..Len(o.handover_zones)}

Rerun(frame) ==
    IF out.op = "analyze_floor" THEN analyze_floor(exists, frame)
    ELSE create_handover_scatter(exists, frame)

\* C4: a repeated measurement of an already qualifying BSSID changes neither a
\* location's qualifying AP count nor its handover flag, in analyze_floor and
\* in create_handover_scatter: with the repeated record taken away the zones
\* and their counts are the same; the same BSSID twice at -60 dBm is one
\* qualifying AP and no handover zone.
C4_Dedup ==
    (FloorDone \/ ScatterDone) =>
        LET net == FloorNet
            counts == ZoneCounts(out)
        IN  /\ \A i \in Repeated(net) : ZoneCounts(Rerun(RemoveAt(df, i))) = counts
            /\ \A k \in NetLocations(net) :
                  (Cardinality(QualifyingAPs(net, k)) = 1)
                      => k \notin ZoneKeys(out.handover_zones)
            /\ (df = DedupExample) => out.handover_zones = <<>>

C4_Witness ==
    /\ FloorDone
    /\ \E i \in Repeated(FloorNet) : Cardinality(QualifyingAPs(FloorNet, LocationOf(i))) = 1
    /\ \E i \in Repeated(FloorNet) : Cardinality(QualifyingAPs(FloorNet, LocationOf(i))) >= 2

\* C5: on the example of section 8, (0,0) is a handover zone with 2 qualifying
\* APs, (1,0) has 0 qualifying APs and is no zone, handover_coverage is 50.0.
C5_SpecExample ==
    (out.op = "analyze_floor" /\ df = SpecExample) =>
        /\ out.returned = "dict"
        /\ out.handover_zones # <<>>
        /\ Len(out.handover_zones) = 1
        /\ out.handover_zones[1].x = 0 /\ out.handover_zones[1].y = 0
        /\ out.handover_zones[1].num_aps = 2
        /\ floor_num_aps(floor_strong_aps(get_group(floor_slu_users(df), <<1, 0>>))) = 0
        /\ out.total_locations = 2
        /\ out.handover_coverage = <<50, 1>>
        /\ out.result.handover_coverage = <<50, 1>>

C5_Witness == df = SpecExample /\ out.op = "analyze_floor"

CoverageOut == out.handover_coverage

HandoverCountOut ==
    IF out.op = "analyze_floor" THEN out.handover_locations ELSE out.handover_count

LocationCountOut ==
    IF out.op = "analyze_floor" THEN out.total_locations ELSE out.Locations

\* C6: handover_coverage is handover_locations / total_locations * 100 with
\* total_locations the number of distinct locations of the network's records,
\* 0 when there is none; handover_locations <= total_locations and the
\* coverage lies in [0, 100] (analyze_floor and create_building_comparison).
C6_HandoverCoverage ==
    (FloorDone \/ ComparisonDone) =>
        LET net == FloorNet
            c == CoverageOut
            h == HandoverCountOut
            t == LocationCountOut
        IN  /\ t = Cardinality(NetLocations(net))
            /\ h = Cardinality(HandoverLocations(net))
            /\ h <= t
            /\ c[2] > 0
            /\ (t = 0) => c = <<0, 1>>
            /\ (t > 0) => c[1] * t = 100 * h * c[2]
            /\ 0 <= c[1] /\ c[1] <= 100 * c[2]

C6_Witness ==
    /\ FloorDone
    /\ 0 < HandoverCountOut /\ HandoverCountOut < LocationCountOut
    /\ CoverageOut[2] # 1

C6_WitnessNoLocation == FloorDone /\ LocationCountOut = 0 /\ CoverageOut = <<0, 1>>

----------------------------------------------------------------------------
(* Per-zone signal and the efficiency score *)

RECURSIVE SumOver(_, _)
SumOver(f, S) ==
    IF S = {} THEN 0
    ELSE LET i == CHOOSE j \in S : TRUE IN f[i] + SumOver(f, S \ {i})

\* the rational a is the mean of signal_strength over the records idx
IsMeanOver(a, idx) ==
    /\ idx # {}
    /\ a[2] > 0
    /\ a[1] * Cardinality(idx) = SumOver([i \in idx |-> df[i].signal_strength[1]], idx) * a[2]

ZoneSignal(z) == IF out.op = "analyze_floor" THEN z.avg_signal ELSE z.signal

\* C7: the average signal recorded for a handover zone (avg_signal in
\* analyze_floor, signal in create_handover_scatter) is the mean over all the
\* network's measurements at the location, not only over those above -70 dBm.
C7_ZoneMeanOverAll ==
    (FloorDone \/ ScatterDone) =>
        LET net == FloorNet
        IN  \A i \in 1..Len(out.handover_zones) :
              LET z == out.handover_zones[i]
              IN  IsMeanOver(ZoneSignal(z),
                             {j \in MeasuredAt(net, <<z.x, z.y>>) : df[j].signal_strength # NaN})

\* what analyze_floor records instead: the mean over the records above -70 dBm
C7_FloorMeanOverStrong ==
    FloorDone =>
        LET net == FloorNet
        IN  \A i \in 1..Len(out.handover_zones) :
              LET z == out.handover_zones[i]
              IN  IsMeanOver(z.avg_signal, {j \in MeasuredAt(net, <<z.x, z.y>>) : Qualifies(j)})

\* create_handover_scatter alone does what C7 says
C7_ScatterMeanOverAll == ScatterDone => C7_ZoneMeanOverAll

NoNetworkRecords == FloorNet = {}

\* C8: with no record of the network analyze_floor raises nothing and
\* produces a summary of zero band counts, zero handover_coverage and zero
\* efficiency_score.
C8_EmptySummaryOfZeros ==
    (out.op = "analyze_floor" /\ exists /\ NoNetworkRecords) =>
        /\ out.raised = "none"
        /\ out.returned = "dict"
        /\ out.excellent = 0 /\ out.good = 0 /\ out.fair = 0 /\ out.poor = 0
        /\ out.handover_coverage = <<0, 1>>
        /\ out.efficiency_score = <<0, 1>>

\* what analyze_floor does with no record of the network: it returns None and
\* no summary, or raises AttributeError when no row of the file has a name
C8_EmptyGivesNoSummary ==
    (out.op = "analyze_floor" /\ NoNetworkRecords) =>
        /\ DOMAIN out = {"op", "returned", "raised"}
        /\ IF exists /\ no_str_accessor(df, "ssid")
           THEN out.returned = "raise" /\ out.raised = "AttributeError"
           ELSE out.returned = "None" /\ out.raised = "none"

C8_WitnessRaises == out.op = "analyze_floor" /\ out.raised = "AttributeError"

C8_Witness ==
    /\ out.op = "analyze_floor" /\ NoNetworkRecords
    /\ exists /\ Len(df) > 0

C8_WitnessNoFile == out.op = "analyze_floor" /\ ~exists

\* C9: efficiency_score = 0.4 * handover_score + 0.3 * signal_quality_score
\* + 0.3 * density_score with handover_score the handover_coverage itself;
\* coverage_score is no term of it.
C9_EfficiencyFormula ==
    FloorDone =>
        LET e == out.efficiency_score
            h == out.handover_coverage
            q == out.signal_quality_score
            d == out.density_score
        IN  /\ out.handover_score = out.handover_coverage
            /\ e[2] > 0
            /\ 10 * e[1] * h[2] * q[2] * d[2]
                 = e[2] * (4 * h[1] * q[2] * d[2] + 3 * q[1] * h[2] * d[2]
                           + 3 * d[1] * h[2] * q[2])
            /\ out.result.efficiency_score = e

C9_Witness ==
    /\ FloorDone
    /\ out.handover_score # out.signal_quality_score
    /\ out.coverage_score # out.handover_score
    /\ RLt(RInt(0), out.handover_score)
    /\ RLt(RInt(0), out.coverage_score)

InRange(a) == a[2] > 0 /\ 0 <= a[1] /\ a[1] <= 100 * a[2]

\* C10: coverage_score, handover_score, signal_quality_score, density_score
\* and efficiency_score of analyze_floor all lie in [0, 100].
C10_ScoresInRange ==
    FloorDone =>
        /\ InRange(out.coverage_score)
        /\ InRange(out.handover_score)
        /\ InRange(out.signal_quality_score)
        /\ InRange(out.density_score)
        /\ InRange(out.efficiency_score)

\* more than 20 access points per zone and a zone mean above -50 dBm: both
\* clamps act
C10_Witness ==
    /\ FloorDone
    /\ RLt(RInt(20), out.avg_aps_per_zone)
    /\ RLt(RInt(-50), out.avg_handover_signal)
    /\ out.density_score = <<100, 1>>
    /\ out.signal_quality_score = <<100, 1>>
    /\ out.efficiency_score = <<100, 1>>

\* The handover coverages of floors with up to MaxLocations locations.
MaxLocations == 3

CoverageLevels ==
    UNION {{floor_handover_coverage(h, t) : h \in 0..t} : t \in 0..MaxLocations}

\* C11: with signal_quality_score and density_score held equal, a floor with
\* a higher handover_coverage never has a lower efficiency_score.
C11_MonotoneInCoverage ==
    FloorDone =>
        LET q == out.signal_quality_score
            d == out.density_score
        IN  \A h \in CoverageLevels :
                /\ RLe(out.handover_score, h) =>
                       RLe(out.efficiency_score, floor_efficiency_score(h, q, d))
                /\ RLe(h, out.handover_score) =>
                       RLe(floor_efficiency_score(h, q, d), out.efficiency_score)

\* a floor with half of its locations handover zones: coverages above and
\* below it are compared
C11_Witness ==
    /\ FloorDone
    /\ out.handover_score = <<50, 1>>
    /\ \E h \in CoverageLevels :
           /\ RLt(out.handover_score, h)
           /\ RLt(out.efficiency_score,
                  floor_efficiency_score(h, out.signal_quality_score, out.density_score))

\* mean signals on both sides of the two clamps of signal_quality_score
MeanLevels == {-120, -101, -100, -99, -75, -51, -50, -49, -30}

\* the score s is (mean + 100) * 2 clamped to [0, 100]
IsQualityOf(s, a) ==
    LET num == 2 * (a[1] + 100 * a[2])
    IN  /\ a[2] > 0 /\ s[2] > 0
        /\ IF num <= 0 THEN s[1] = 0
           ELSE IF num >= 100 * a[2] THEN s[1] = 100 * s[2]
           ELSE s[1] * a[2] = num * s[2]

\* C12: signal_quality_score is (mean handover-zone signal + 100) * 2 clamped
\* to [0, 100]: 0 for a mean of -100 dBm or less, 100 for a mean of -50 dBm or
\* more; a floor without a handover zone takes the mean as -100 and scores 0.
C12_SignalQuality ==
    /\ \A m \in MeanLevels :
           LET s == floor_signal_quality_score(RInt(m))
           IN  /\ IsQualityOf(s, RInt(m))
               /\ m <= -100 => s = RInt(0)
               /\ m >= -50 => s = RInt(100)
    /\ FloorDone =>
           LET zones == out.handover_zones
               a == out.avg_handover_signal
               s == out.signal_quality_score
           IN  /\ IsQualityOf(s, a)
               /\ RLe(a, RInt(-100)) => s = RInt(0)
               /\ RLe(RInt(-50), a) => s = RInt(100)
               /\ IF Len(zones) = 0
                  THEN a = RInt(-100) /\ s = RInt(0)
                  ELSE RMul(a, RInt(Len(zones))) = SumRats(Column(zones, "avg_signal"))

\* two handover zones of different signal whose mean lies between the clamps
C12_Witness ==
    /\ FloorDone
    /\ Len(out.handover_zones) >= 2
    /\ out.handover_zones[1].avg_signal # out.handover_zones[2].avg_signal
    /\ RLt(RInt(0), out.signal_quality_score)
    /\ RLt(out.signal_quality_score, RInt(100))

\* a floor with locations and no handover zone
C12_WitnessNoZone ==
    /\ FloorDone
    /\ out.total_locations > 0
    /\ Len(out.handover_zones) = 0
    /\ out.signal_quality_score = RInt(0)

\* the number of qualifying access points summed over the handover zones
ZoneAPsTotal(net, zones) ==
    SumOver([k \in ZoneKeys(zones) |-> Cardinality(QualifyingAPs(net, k))], ZoneKeys(zones))

\* C13: density_score is the mean number of qualifying access points per
\* handover zone, divided by 20, times 100, clamped to [0, 100]: exactly 100
\* when the mean is 20 or more, and 0 when there is no handover zone.
C13_Density ==
    FloorDone =>
        LET net == FloorNet
            zones == out.handover_zones
            n == Len(zones)
            aps == ZoneAPsTotal(net, zones)
            s == out.density_score
        IN  /\ s[2] > 0
            /\ Cardinality(ZoneKeys(zones)) = n
            /\ IF n = 0 THEN s[1] = 0
               ELSE IF aps >= 20 * n THEN s[1] = 100 * s[2]
               ELSE s[1] * 20 * n = aps * 100 * s[2]

\* a zone of three qualifying access points among others of two: a mean
\* that is no whole number, below 20
C13_Witness ==
    /\ FloorDone
    /\ Len(out.handover_zones) >= 2
    /\ out.avg_aps_per_zone[2] > 1
    /\ RLt(out.density_score, RInt(100))

\* a mean of exactly 20 qualifying access points
C13_WitnessTwenty ==
    /\ FloorDone
    /\ out.avg_aps_per_zone = RInt(20)
    /\ out.density_score = RInt(100)

\* no handover zone
C13_WitnessNoZone ==
    /\ FloorDone
    /\ Len(out.handover_zones) = 0
    /\ out.density_score = RInt(0)

----------------------------------------------------------------------------
(* The validator *)

CompareDone == out.op = "compare_floor" /\ out.returned = "dict"

NumbersDone == out.op = "compare_with_acrylic_numbers" /\ out.raised = "none"

ValidateAllDone == out.op = "validate_all_floors" /\ out.returned = "dict"

DashboardDone == out.op = "create_validation_dashboard" /\ out.raised = "none"

\* the distinct BSSIDs in a floor's file of the survey directory
BssidsIn(f) == {pi_dir[f].frame[i].bssid : i \in 1..Len(pi_dir[f].frame)}

\* C14: the match percentage is symmetric: for positive counts a and b the
\* bssid_match of (a, b) equals that of (b, a), in compare_floor, in
\* compare_with_acrylic_numbers and in create_validation_dashboard.
C14_MatchSymmetric ==
    /\ \A a \in 1..MaxCount, b \in 1..MaxCount :
           /\ validate_bssid_match(a, b) = validate_bssid_match(b, a)
           /\ numbers_bssid_match(a, b) = numbers_bssid_match(b, a)
           /\ dashboard_match(a, b) = dashboard_match(b, a)
    /\ (CompareDone /\ out.pi_bssids > 0) =>
           out.bssid_match = validate_bssid_match(out.acrylic_bssids, out.pi_bssids)
    /\ (NumbersDone /\ out.pi_bssids > 0 /\ out.acrylic_bssids > 0) =>
           out.bssid_match = numbers_bssid_match(out.acrylic_bssids, out.pi_bssids)
    /\ DashboardDone =>
           \A i \in 1..Len(Floors) :
               LET pi_bssids == Cardinality(BssidsIn(Floors[i]))
               IN  (pi_dir[Floors[i]].exists /\ pi_bssids > 0) =>
                       out.match_percentages[i]
                           = dashboard_match(acrylic_totals[Floors[i]], pi_bssids)

\* a floor on which the Pi saw fewer BSSIDs than Acrylic
C14_Witness ==
    /\ CompareDone
    /\ 0 < out.pi_bssids /\ out.pi_bssids < out.acrylic_bssids

\* ... and one on which it saw more
C14_WitnessMore == CompareDone /\ out.pi_bssids > out.acrylic_bssids

C14_WitnessNumbers ==
    NumbersDone /\ 0 < out.acrylic_bssids /\ out.acrylic_bssids < out.pi_bssids

C14_WitnessDashboard ==
    /\ DashboardDone
    /\ \E i \in 1..Len(Floors) :
           /\ pi_dir[Floors[i]].exists
           /\ Cardinality(BssidsIn(Floors[i])) > acrylic_totals[Floors[i]]

\* the percentage m is min(a, b) / max(a, b) * 100 for positive counts a and b:
\* above 0, at most 100, and 100 exactly when a = b
IsMatchOf(m, a, b) ==
    /\ m[2] > 0
    /\ m[1] * IntMax(a, b) = 100 * IntMin(a, b) * m[2]
    /\ 0 < m[1] /\ m[1] <= 100 * m[2]
    /\ (m = RInt(100)) <=> (a = b)

\* C15: when both counts are positive, bssid_match is
\* min(countA, countB) / max(countA, countB) * 100, lies in (0, 100] and is 100
\* exactly when the counts are equal; network_match is the same formula on the
\* network-name counts.
C15_MatchRange ==
    /\ (CompareDone /\ out.pi_bssids > 0) =>
           IsMatchOf(out.bssid_match, out.pi_bssids, out.acrylic_bssids)
    /\ (CompareDone /\ out.pi_networks > 0) =>
           IsMatchOf(out.network_match, out.pi_networks, out.acrylic_networks)
    /\ (NumbersDone /\ out.pi_bssids > 0 /\ out.acrylic_bssids > 0) =>
           IsMatchOf(out.bssid_match, out.pi_bssids, out.acrylic_bssids)
    /\ (NumbersDone /\ out.pi_networks > 0 /\ out.acrylic_networks > 0) =>
           IsMatchOf(out.network_match, out.pi_networks, out.acrylic_networks)

\* equal BSSID counts and unequal network counts, all positive
C15_Witness ==
    /\ NumbersDone
    /\ out.pi_bssids > 0 /\ out.pi_bssids = out.acrylic_bssids
    /\ out.pi_networks > 0 /\ out.acrylic_networks > out.pi_networks
    /\ out.bssid_match = RInt(100)
    /\ RLt(out.network_match, RInt(100))

\* the Pi capture reproduces Acrylic's BSSID count of the floor
C15_WitnessFloor ==
    /\ CompareDone
    /\ out.pi_bssids = out.acrylic_bssids
    /\ out.pi_networks > 0
    /\ out.bssid_match = RInt(100)

\* C16: when the Pi count and the Acrylic count handed to
\* compare_with_acrylic_numbers are both 0 (of BSSIDs, or of networks), the
\* match is computed without a division by zero and a result is produced.
C16_ZeroCountsHandled ==
    (/\ out.op = "compare_with_acrylic_numbers"
     /\ \/ out.pi_bssids = 0 /\ out.acrylic_bssids = 0
        \/ out.pi_networks = 0 /\ out.acrylic_networks = 0)
        => out.raised = "none"

\* what the code does: it raises ZeroDivisionError exactly in that case
C16_ZeroCountsRaise ==
    out.op = "compare_with_acrylic_numbers" =>
        (out.raised = "ZeroDivisionError"
            <=> \/ out.pi_bssids = 0 /\ out.acrylic_bssids = 0
                \/ out.pi_networks = 0 /\ out.acrylic_networks = 0)

\* compare_floor divides by Acrylic's counts of the floor, none of them 0:
\* a capture without any BSSID is a match of 0 percent
C16_CompareFloorNeverDivides ==
    out.op = "compare_floor" =>
        /\ out.raised # "ZeroDivisionError"
        /\ (out.returned = "dict" /\ out.pi_bssids = 0) => out.bssid_match = RInt(0)

C16_WitnessRaises ==
    /\ out.op = "compare_with_acrylic_numbers"
    /\ out.raised = "ZeroDivisionError"
    /\ out.pi_bssids = 0 /\ out.acrylic_bssids = 0

C16_WitnessEmptyFloor ==
    CompareDone /\ out.pi_bssids = 0 /\ out.bssid_match = RInt(0)

\* the level a message stands for
VerdictLevel(message) ==
    CASE message \in {"SUCCESSFUL", "EXCELLENT"} -> "excellent"
      [] message = "GOOD" -> "good"
      [] message = "PARTIAL" -> "partial"
      [] OTHER -> "none"

\* C17: the verdict cutoffs are applied consistently: a pair (signal
\* difference, BSSID match) gets from the aggregate comparison
\* (validate_all_floors and the dashboard's RESULT, where the pair is the
\* averages over the floors) the level compare_floor gives it for one floor.
C17_VerdictsConsistent ==
    /\ (ValidateAllDone /\ out.verdict # "none") =>
           VerdictLevel(out.verdict)
               = VerdictLevel(validate_verdict(out.avg_signal_diff, out.avg_bssid_match))
    /\ DashboardDone =>
           VerdictLevel(out.result)
               = VerdictLevel(validate_verdict(out.avg_signal_diff, out.avg_detection))

\* validate_all_floors has the cutoffs of compare_floor's highest level and
\* prints nothing below it
C17_AggregateTopLevelAgrees ==
    (ValidateAllDone /\ Len(out.results) > 0) =>
        (out.verdict = "EXCELLENT"
            <=> validate_verdict(out.avg_signal_diff, out.avg_bssid_match) = "SUCCESSFUL")

\* the dashboard has cutoffs of its own and no level below GOOD
C17_DashboardCutoffs ==
    DashboardDone =>
        /\ out.result = "EXCELLENT"
               <=> (RLt(out.avg_signal_diff, RInt(2)) /\ RLt(RInt(95), out.avg_detection))
        /\ out.result # "EXCELLENT" => out.result = "GOOD"

\* averages that compare_floor calls successful and the dashboard only good
C17_WitnessDashboardStricter ==
    /\ DashboardDone
    /\ out.result = "GOOD"
    /\ validate_verdict(out.avg_signal_diff, out.avg_detection) = "SUCCESSFUL"

\* averages that compare_floor calls partial and the dashboard good
C17_WitnessDashboardNoPartial ==
    /\ DashboardDone
    /\ out.result = "GOOD"
    /\ validate_verdict(out.avg_signal_diff, out.avg_detection) = "PARTIAL"

C17_WitnessDashboardExcellent == DashboardDone /\ out.result = "EXCELLENT"

C17_WitnessAggregateExcellent == ValidateAllDone /\ out.verdict = "EXCELLENT"

----------------------------------------------------------------------------
(* Records without a signal *)

ValidIn(sig) == {i \in DOMAIN sig : notna(sig[i])}

BandSum == out.excellent + out.good + out.fair + out.poor

\* C18: a record of the network without signal_strength is skipped by
\* analyze_floor: it is in no band and not in the total the percentages are
\* taken of, so that with at least one valid record the four percentages
\* count / total * 100 add up to 100.
C18_MissingSignalSkipped ==
    FloorDone =>
        LET sig == NetSignals
        IN  ValidIn(sig) # {} =>
              /\ BandSum = Cardinality(ValidIn(sig))
              /\ out.total = Cardinality(ValidIn(sig))
              /\ BandSum * 100 = 100 * out.total

\* what the code does: the record is in no band, and the run goes on ...
C18_MissingInNoBand ==
    (FloorDone \/ PiDone) =>
        LET sig == NetSignals IN BandSum = Cardinality(ValidIn(sig))

\* ... but it is counted in total, the denominator of the percentages
C18_TotalCountsMissing ==
    (FloorDone \/ PiDone) =>
        LET sig == NetSignals IN out.total = Cardinality(DOMAIN sig)

C18_WitnessFloor ==
    /\ FloorDone
    /\ LET sig == NetSignals
       IN  ValidIn(sig) # {} /\ ValidIn(sig) # DOMAIN sig /\ BandSum < out.total

C18_WitnessPi ==
    /\ PiDone
    /\ LET sig == NetSignals
       IN  ValidIn(sig) # {} /\ ValidIn(sig) # DOMAIN sig /\ BandSum < out.total

----------------------------------------------------------------------------
(* Reorderings of the input *)

MaxShift == 2

Reverse(s) == [i \in 1..Len(s) |-> s[Len(s) + 1 - i]]

\* the first k records moved to the end
Rotate(s, k) == SubSeq(s, k + 1, Len(s)) \o SubSeq(s, 1, k)

SwapFirstTwo(s) == IF Len(s) < 2 THEN s ELSE <<s[2], s[1]>> \o SubSeq(s, 3, Len(s))

MaxPermuted == 3

Orders(s) ==
    {[i \in 1..Len(s) |-> s[f[i]]] :
        f \in {g \in [1..Len(s) -> 1..Len(s)] :
                  \A i \in 1..Len(s), j \in 1..Len(s) : i # j => g[i] # g[j]}}

\* every order of a file of up to MaxPermuted records; of a longer one its
\* reverse, its rotations by up to MaxShift and the exchange of its first two
Reorderings(s) ==
    IF Len(s) <= MaxPermuted THEN Orders(s)
    ELSE {Reverse(s), SwapFirstTwo(s)} \cup {Rotate(s, k) : k \in 1..MaxShift}

\* C19: analyze_floor is a function of the set of measurements: run on the
\* same records in another order it gives the same band counts, the same
\* handover-zone locations with the same qualifying AP counts, the same
\* handover_coverage and the same efficiency_score; the records it was run on
\* are as they were, a second run on them gives the same again.
C19_OrderIndependent ==
    out.op = "analyze_floor" =>
        /\ analyze_floor(exists, df) = out
        /\ \A p \in Reorderings(df) :
               LET o == analyze_floor(exists, p)
               IN  /\ o.returned = out.returned
                   /\ o.returned = "dict" =>
                        /\ o.excellent = out.excellent /\ o.good = out.good
                        /\ o.fair = out.fair /\ o.poor = out.poor
                        /\ ZoneCounts(o) = ZoneCounts(out)
                        /\ o.handover_coverage = out.handover_coverage
                        /\ o.efficiency_score = out.efficiency_score
                        /\ o.result = out.result

\* two handover zones whose records were read interleaved, and an order in
\* which a zone's records of the same BSSID are no longer adjacent
C19_Witness ==
    /\ FloorDone
    /\ Len(out.handover_zones) >= 2
    /\ \E p \in Reorderings(df) :
           /\ p # df
           /\ analyze_floor(exists, p).handover_zones # <<>>
           /\ \E i \in 1..(Len(df) - 1) :
                  Located(i) /\ Located(i + 1) /\ LocationOf(i) # LocationOf(i + 1)

\* a file short enough for every order of it to be analysed
C19_WitnessAllOrders ==
    /\ FloorDone
    /\ Len(df) = MaxPermuted
    /\ Cardinality(Reorderings(df)) = 6
    /\ out.handover_zones # <<>>

----------------------------------------------------------------------------
(* The two lists of create_handover_scatter *)

\* C20: create_handover_scatter partitions the distinct locations of the
\* network's measurements: each location is in exactly one of handover_zones
\* and non_handover, once, and the two lists together are as long as there are
\* distinct locations.
C20_ScatterPartition ==
    ScatterDone =>
        LET locations == NetLocations(FloorNet)
            zones == ZoneKeys(out.handover_zones)
            others == ZoneKeys(out.non_handover)
        IN  /\ zones \cup others = locations
            /\ zones \cap others = {}
            /\ Cardinality(zones) = Len(out.handover_zones)
            /\ Cardinality(others) = Len(out.non_handover)
            /\ Len(out.handover_zones) + Len(out.non_handover) = Cardinality(locations)

\* a floor with handover zones, a location heard by one access point only
\* and a location where no record is above the threshold
C20_Witness ==
    /\ ScatterDone
    /\ out.handover_zones # <<>>
    /\ Len(out.non_handover) >= 2
    /\ LET net == FloorNet
       IN  \E k \in NetLocations(net) : QualifyingAPs(net, k) = {}

----------------------------------------------------------------------------
(* The building-wide summary *)

MainDone == out.op = "main"

\* analyze_floor run on the i-th floor directory alone
Alone(i) == analyze_floor(data_dir[i].exists, data_dir[i].frame)

\* the floor directories for which analyze_floor returns a summary
Summarised == {i \in 1..Len(data_dir) : Alone(i).returned = "dict"}

C21_WitnessNoResult ==
    /\ MainDone
    /\ Len(data_dir) >= 2
    /\ out.raised = "none"
    /\ ~out.summarized

----------------------------------------------------------------------------
(* The handover threshold *)

AllAt(net, k, level) == \A i \in MeasuredAt(net, k) : df[i].signal_strength = <<level>>

BssidsAt(net, k) == {df[i].bssid : i \in MeasuredAt(net, k)}

\* C22: the handover threshold is strict. A measurement at exactly -70 dBm
\* does not qualify its BSSID: a location measured only at -70, by however
\* many BSSIDs, is no handover zone in analyze_floor and in
\* create_handover_scatter, and a location measured only at -69 by two or
\* more BSSIDs is one.
C22_ThresholdStrict ==
    (FloorDone \/ ScatterDone) =>
        LET net == FloorNet
            zones == ZoneKeys(out.handover_zones)
        IN  /\ \A k \in NetLocations(net) :
                   /\ AllAt(net, k, -70) => k \notin zones
                   /\ (AllAt(net, k, -69) /\ Cardinality(BssidsAt(net, k)) >= 2)
                          => k \in zones
                   /\ k \in zones =>
                          \E i \in MeasuredAt(net, k) :
                              df[i].signal_strength # NaN /\ df[i].signal_strength[1] >= -69
            /\ df = Dense(2, -70) => out.handover_zones = <<>>
            /\ df = Dense(2, -69) => Len(out.handover_zones) = 1

\* two BSSIDs, both at exactly -70 dBm, charted
C22_Witness == ScatterDone /\ df = Dense(2, -70) /\ Len(out.non_handover) = 1

C22_WitnessFloor == FloorDone /\ df = Dense(2, -70) /\ out.handover_locations = 0

\* the same location with both at -69 dBm
C22_WitnessAbove ==
    /\ (FloorDone \/ ScatterDone)
    /\ df = Dense(2, -69)
    /\ Len(out.handover_zones) = 1

----------------------------------------------------------------------------
(* The copies of the handover detector *)

\* the locations create_building_comparison counts as handover zones
ComparisonFlagged(frame) ==
    LET slu == SelectSeq(frame, LAMBDA r : str_contains(r.ssid, SLU_users))
        keys == groupby(slu)
    IN  {keys[i] : i \in {j \in 1..Len(keys) : comparison_handover_count(slu, <<keys[j]>>) = 1}}

\* C23: on a floor with at least one record of the network, analyze_floor,
\* create_handover_scatter and create_building_comparison flag the same
\* locations as handover zones, and analyze_floor and
\* create_building_comparison compute the same handover_coverage.
C23_HandoverCopiesAgree ==
    ComparisonDone =>
        LET a == analyze_floor(exists, df)
            s == create_handover_scatter(exists, df)
            c == out
        IN  /\ a.returned = "dict" /\ s.charted
            /\ ZoneKeys(a.handover_zones) = ZoneKeys(s.handover_zones)
            /\ ZoneCounts(a) = ZoneCounts(s)
            /\ ComparisonFlagged(df) = ZoneKeys(a.handover_zones)
            /\ c.handover_count = Len(a.handover_zones)
            /\ c.Locations = a.total_locations
            /\ c.handover_coverage = a.handover_coverage

\* a floor with a handover zone, a location that is none, and a BSSID
\* measured twice above the threshold at one location
C23_Witness ==
    /\ ComparisonDone
    /\ out.handover_count >= 1
    /\ out.Locations > out.handover_count
    /\ Repeated(FloorNet) # {}

----------------------------------------------------------------------------
(* The copies of the coverage classifier *)

SummaryDone == out.op = "create_summary_dashboard" /\ out.charted

\* the signal cells the function classified, in file order
SignalsRead ==
    IF out.op = "analyze_slu_network"
    THEN Column(pi_slu_users(pi_slu(data)), "signal_dbm")
    ELSE Column(SelectSeq(df, LAMBDA r : str_contains(r.ssid, SLU_users)), "signal_strength")

\* a floor survey and a Pi survey of the network holding the given signals
AsFloor(sig) == [i \in 1..Len(sig) |-> Row(<<0>>, <<0>>, i, <<SLU_users>>, sig[i])]

AsPi(sig) == [i \in 1..Len(sig) |-> PiRow(i, <<SLU_users>>, sig[i])]

Bands(o) == <<o.excellent, o.good, o.fair, o.poor>>

\* C24: for every collection of signal values, the band counts of
\* analyze_floor, analyze_slu_network, create_coverage_quality and
\* create_summary_dashboard are the same.
C24_ClassifierCopiesAgree ==
    (PiDone \/ SummaryDone) =>
        LET sig == SignalsRead
            a == analyze_floor(TRUE, AsFloor(sig))
            p == analyze_slu_network(AsPi(sig))
            q == create_coverage_quality(TRUE, AsFloor(sig))
            d == create_summary_dashboard(TRUE, AsFloor(sig))
        IN  /\ a.returned = "dict" /\ p.classified /\ q.charted /\ d.charted
            /\ Bands(out) = Bands(a)
            /\ Bands(out) = Bands(p)
            /\ Bands(out) = Bands(q)
            /\ Bands(out) = Bands(d)

\* the dashboard classifying a record on each boundary and one in each band
C24_Witness ==
    /\ SummaryDone
    /\ \A v \in {<<-50>>, <<-65>>, <<-80>>} : \E i \in FloorNet : df[i].signal_strength = v
    /\ out.excellent >= 1 /\ out.good >= 1 /\ out.fair >= 1 /\ out.poor >= 1

----------------------------------------------------------------------------
(* The efficiency score and the handover zones *)

IsZero(r) == RLe(r, RInt(0)) /\ RLe(RInt(0), r)

\* C25: on a floor with at least one record of the network, analyze_floor
\* returns efficiency_score = 0 iff the floor has no handover zone; with a
\* zone, every zone has num_aps >= 2, density_score >= 10, handover_score > 0
\* and efficiency_score > 0.
C25_EfficiencyZeroIffNoZone ==
    FloorDone =>
        LET zones == out.handover_zones
            located == HandoverLocations(FloorNet)
        IN  /\ (zones = <<>>) <=> (located = {})
            /\ IsZero(out.efficiency_score) <=> (located = {})
            /\ located # {} =>
                 /\ \A i \in 1..Len(zones) : zones[i].num_aps >= 2
                 /\ RLe(RInt(10), out.density_score)
                 /\ RLt(RInt(0), out.handover_score)
                 /\ RLt(RInt(0), out.efficiency_score)

\* a floor whose one zone has two access points: density_score is exactly 10
C25_Witness ==
    /\ FloorDone
    /\ Len(out.handover_zones) = 1
    /\ out.density_score = RInt(10)
    /\ RLt(RInt(0), out.efficiency_score)

\* a floor of the network without handover zone: the score is 0
C25_WitnessNoZone ==
    /\ FloorDone
    /\ out.handover_zones = <<>>
    /\ out.total_locations >= 2
    /\ IsZero(out.efficiency_score)

----------------------------------------------------------------------------
(* The filters of the Pi scripts *)

PiFiltered == out.op = "analyze_slu_network" /\ out.raised = "none"

\* C26: the records analyze_slu_network keeps (essid contains 'SLU' and
\* contains 'users') are exactly the records compare_floor keeps (essid
\* contains 'SLU-users'), and a record without network name is kept by
\* neither.
C26_SameRecordsKept ==
    PiFiltered =>
        /\ out.slu_users = validate_pi_slu(data)
        /\ \A i \in 1..Len(out.slu_users) : notna(out.slu_users[i].essid)

\* what the two filters do: compare_floor keeps a part of what
\* analyze_slu_network keeps and neither keeps a record without name
C26_ValidatorKeepsPart ==
    PiFiltered =>
        LET kept == validate_pi_slu(data)
        IN  /\ kept = SelectSeq(out.slu_users, LAMBDA r : str_contains(r.essid, SLU_users))
            /\ \A i \in 1..Len(out.slu_users) : notna(out.slu_users[i].essid)
            /\ \A i \in 1..Len(kept) : notna(kept[i].essid)

C26_WitnessNull ==
    /\ PiFiltered
    /\ \E i \in 1..Len(data) : data[i].essid = NaN
    /\ Len(out.slu_users) > 0

----------------------------------------------------------------------------
(* The signal difference of the validator and of the dashboard *)

\* the floor's file exists and holds a record of the network
HasNetworkRecords(f) == pi_dir[f].exists /\ validate_pi_slu(pi_dir[f].frame) # <<>>

\* C27: for every floor with a parsed file, one without record of the network
\* included, the signal_diff compare_floor returns is the value
\* create_validation_dashboard appends to signal_diffs, and a floor without
\* usable signal data is not charted as a match within 2 dBm.
C27_SignalDiffAgrees ==
    DashboardDone =>
        \A i \in {j \in 1..Len(Floors) : pi_dir[Floors[j]].exists} :
            LET c == compare_floor(pi_dir, Floors[i])
            IN  /\ c.returned = "dict"
                /\ c.result.signal_diff = out.signal_diffs[i]
                /\ out.signal_colors[i] => HasNetworkRecords(Floors[i])

\* what the code does: the two values agree on a floor with a record of the
\* network; on any other floor the dashboard appends 0 and charts a match,
\* where compare_floor returns nothing or a NaN difference
C27_AgreeOnNetworkRecords ==
    DashboardDone =>
        \A i \in 1..Len(Floors) :
            LET c == compare_floor(pi_dir, Floors[i])
            IN  IF HasNetworkRecords(Floors[i])
                THEN /\ c.returned = "dict"
                     /\ c.result.signal_diff = out.signal_diffs[i]
                ELSE /\ out.signal_diffs[i] = RInt(0)
                     /\ out.signal_colors[i]
                     /\ \/ c.returned = "None"
                        \/ c.returned = "dict" /\ IsNaNRat(c.result.signal_diff)

C27_WitnessNoRecords ==
    /\ DashboardDone
    /\ \E f \in FloorNames : pi_dir[f].exists /\ ~HasNetworkRecords(f)
    /\ \E f \in FloorNames : HasNetworkRecords(f)

----------------------------------------------------------------------------
(* The drivers that run over the floors *)

DriverRun == out.op \in {"validate_all_floors", "analyze_all_floors"}

\* the floors whose parsed file exists, in the order of the drivers
FloorsWithFile == SelectSeq(Floors, LAMBDA f : pi_dir[f].exists)

\* the floors whose parsed file cannot be filtered by network name
Unreadable(f) == pi_dir[f].exists /\ no_str_accessor(pi_dir[f].frame, "essid")

\* C28: validate_all_floors and analyze_all_floors visit ground, top,
\* basement in that order; a missing file does not stop the run, every later
\* floor is still processed, and the results mapping returned has an entry
\* for exactly the floors whose file exists (for validate_all_floors: whose
\* compare_floor returned a result).
C28_MissingFloorSkipped ==
    DriverRun =>
        /\ out.returned = "raise" <=> \E f \in FloorNames : Unreadable(f)
        /\ out.returned = "dict" =>
             /\ out.visited = Floors
             /\ Column(out.results, "floor") = FloorsWithFile
             /\ out.op = "validate_all_floors" =>
                  Column(out.results, "floor") =
                      SelectSeq(Floors, LAMBDA f : compare_floor(pi_dir, f).returned = "dict")
        /\ out.returned = "raise" =>
             /\ Unreadable(out.visited[Len(out.visited)])
             /\ out.visited = SubSeq(Floors, 1, Len(out.visited))
             /\ \A i \in 1..(Len(out.visited) - 1) : ~Unreadable(out.visited[i])

\* the first floor's file is missing and the two later floors have an entry
C28_Witness ==
    /\ out.op = "analyze_all_floors"
    /\ out.returned = "dict"
    /\ ~pi_dir["ground"].exists
    /\ Column(out.results, "floor") = <<"top", "basement">>

C28_WitnessValidator ==
    /\ out.op = "validate_all_floors"
    /\ out.returned = "dict"
    /\ ~pi_dir["top"].exists
    /\ Column(out.results, "floor") = <<"ground", "basement">>

----------------------------------------------------------------------------
(* The parser of the captures *)

ParseRun == out.op = "parse"

\* the lines (counted from 0) that start with the access-point header and
\* with the client header
ApHeaderLines == {i \in 0..(Len(csv_file) - 1) : startswith(csv_file[i + 1], "BSSID")}

ClientHeaderLines ==
    {i \in 0..(Len(csv_file) - 1) : startswith(csv_file[i + 1], "Station MAC")}

\* the file has a 'BSSID' header line followed later by a 'Station MAC' one
HeadersInOrder == \E a \in ApHeaderLines : \E c \in ClientHeaderLines : a < c

\* C29: for every capture with a 'BSSID' header line followed later by a
\* 'Station MAC' header line, parse sets access_points (it is not left None)
\* and completes without raising, wherever the 'BSSID' line is, the first
\* line included.
C29_AccessPointsSet ==
    (ParseRun /\ HeadersInOrder) =>
        /\ out.access_points_set
        /\ out.raised = "none"

\* what the code does: access_points is set, and parse completes, iff the
\* 'BSSID' header is not the first line of such a file; when it is the first
\* line access_points stays None and line 46 raises TypeError
C29_SetBehindFirstLine ==
    (ParseRun /\ HeadersInOrder) =>
        /\ out.access_points_set <=> 0 \notin ApHeaderLines
        /\ out.raised = (IF 0 \in ApHeaderLines THEN "TypeError" ELSE "none")
        /\ out.clients_set

C29_WitnessFirstLine ==
    /\ ParseRun
    /\ HeadersInOrder
    /\ 0 \in ApHeaderLines
    /\ Len(csv_file) >= 4

C29_WitnessSecondLine ==
    /\ ParseRun
    /\ HeadersInOrder
    /\ 1 \in ApHeaderLines
    /\ Len(out.access_points.rows) = 2

----------------------------------------------------------------------------
(* Channels, frequencies and bands *)

\* the access points were parsed from lines with a channel column
Banded == out.op \in {"parse", "get_summary_stats"} /\ out.access_points_set
          /\ Has(out.access_points.columns, "band")

ChannelOf(r) == r["channel"]

In24(r) == ChannelOf(r) # NaN /\ ChannelOf(r)[1] \in 1..14

In5(r) == ChannelOf(r) # NaN /\ ChannelOf(r)[1] \in 36..165

\* C30: _channel_to_frequency returns 2407 + 5 * channel for channels 1..14,
\* 5000 + 5 * channel for channels 36..165 and no frequency otherwise; the
\* band of an access point is '2.4 GHz' exactly for channels 1..14, '5 GHz'
\* exactly for channels 36..165 and absent for any other or missing channel,
\* so no access point is counted in both bands.
C30_BandOfChannel ==
    Banded =>
        LET rows == out.access_points.rows
        IN  /\ \A i \in 1..Len(rows) :
                 /\ channel_to_frequency(ChannelOf(rows[i])) =
                        IF In24(rows[i]) THEN Frequency(2407 + 5 * ChannelOf(rows[i])[1])
                        ELSE IF In5(rows[i]) THEN Frequency(5000 + 5 * ChannelOf(rows[i])[1])
                        ELSE FrequencyNone
                 /\ rows[i]["band"] = "2.4 GHz" <=> In24(rows[i])
                 /\ rows[i]["band"] = "5 GHz" <=> In5(rows[i])
                 /\ rows[i]["band"] = "None" <=> ~In24(rows[i]) /\ ~In5(rows[i])
            /\ out.op = "get_summary_stats" =>
                 /\ out.band_2_4ghz = Len(SelectSeq(rows, In24))
                 /\ out.band_5ghz = Len(SelectSeq(rows, In5))
                 /\ out.band_2_4ghz + out.band_5ghz <= out.total_aps

\* the table has an access point on a channel of one of the two bands
SomeInBand(rows) == \E i \in 1..Len(rows) : In24(rows[i]) \/ In5(rows[i])

\* what the code does: the frequency is as stated and no access point is in
\* both bands, but an access point on another channel, or without channel, is
\* given the band '5 GHz' as soon as the table has an access point on a
\* channel of one of the bands; it has no band only when no access point of
\* the table has one
C30_BandAsComputed ==
    Banded =>
        LET rows == out.access_points.rows
        IN  /\ \A i \in 1..Len(rows) :
                 /\ In24(rows[i]) => rows[i]["band"] = "2.4 GHz"
                 /\ In5(rows[i]) => rows[i]["band"] = "5 GHz"
                 /\ ~In24(rows[i]) /\ ~In5(rows[i]) =>
                      rows[i]["band"] = (IF SomeInBand(rows) THEN "5 GHz" ELSE "None")
                 /\ rows[i]["frequency"].kind = "nan" =>
                      ~In24(rows[i]) /\ ~In5(rows[i]) /\ SomeInBand(rows)
            /\ out.op = "get_summary_stats" =>
                 /\ out.band_2_4ghz = Len(SelectSeq(rows, In24))
                 /\ out.band_5ghz >= Len(SelectSeq(rows, In5))
                 /\ out.band_2_4ghz + out.band_5ghz <= out.total_aps

\* channel 15 beside channel 1: counted as a 5 GHz access point
C30_WitnessOutOfRange ==
    /\ out.op = "get_summary_stats"
    /\ Banded
    /\ out.total_aps = 2
    /\ \E i \in 1..2 : ChannelOf(out.access_points.rows[i]) = <<15>>
    /\ \E i \in 1..2 : ChannelOf(out.access_points.rows[i]) = <<1>>
    /\ out.band_5ghz = 1

\* no access point on a channel of the bands: none has a band
C30_WitnessNoBand ==
    /\ out.op = "get_summary_stats"
    /\ Banded
    /\ out.total_aps = 2
    /\ ~SomeInBand(out.access_points.rows)
    /\ out.band_5ghz = 0

====
